---- MODULE Spec2Model ----
(***************************************************************************)
(* Model of the Baserow file-upload MCP server (mcp_baserow_image.js):     *)
(* the upload-and-attach orchestrator (uploadImageUrl, uploadFile), the    *)
(* field resolver (getFieldId) and the structure walker                    *)
(* (readBaserowStructure).                                                 *)
(*                                                                         *)
(* A JavaScript string is a sequence of one-character strings; a template  *)
(* literal is the concatenation of its pieces.  Every fetch is two steps:  *)
(* the request is issued (and logged in requests), then the backend        *)
(* answers and the code runs on to its next await, return or throw.        *)
(***************************************************************************)
EXTENDS Integers, Sequences, FiniteSets, TLC

\* ------------------------------------------------------------------ bounds
\* longest free-text part of a field reference
MaxLen == 2
\* largest field reference passed as a JavaScript number
MaxNum == 11
\* largest field id the backend hands out (ids are positive keys)
MaxId == 2
\* longest field list the backend returns for a table
MaxFields == 2
\* most workspaces, applications and tables, taken together, in the backend
MaxEntities == 4
\* PATCHes of other calls that the backend applies to the row during a call
MaxPatches == 2

\* ------------------------------------------------------- JavaScript strings
Digits == {"0", "1", "2", "3", "4", "5", "6", "7", "8", "9"}
\* characters of the free-text part of a reference
Alphabet == {"0", "1", "e", "E", "-", ".", " "}
Prefix == <<"f", "i", "e", "l", "d", "_">>

DigitVal(c) ==
  CASE c = "0" -> 0 [] c = "1" -> 1 [] c = "2" -> 2 [] c = "3" -> 3
    [] c = "4" -> 4 [] c = "5" -> 5 [] c = "6" -> 6 [] c = "7" -> 7
    [] c = "8" -> 8 [] c = "9" -> 9

DigitChar(d) ==
  CASE d = 0 -> "0" [] d = 1 -> "1" [] d = 2 -> "2" [] d = 3 -> "3"
    [] d = 4 -> "4" [] d = 5 -> "5" [] d = 6 -> "6" [] d = 7 -> "7"
    [] d = 8 -> "8" [] d = 9 -> "9"

AllDigits(s) == \A i \in 1..Len(s) : s[i] \in Digits
\* /^\d+$/
IsDigits(s) == Len(s) > 0 /\ AllDigits(s)

Drop(s, k) == SubSeq(s, k + 1, Len(s))

RECURSIVE TrimLeft(_)
TrimLeft(s) == IF s # <<>> /\ Head(s) = " " THEN TrimLeft(Tail(s)) ELSE s

RECURSIVE TrimRight(_)
TrimRight(s) ==
  IF s # <<>> /\ s[Len(s)] = " " THEN TrimRight(SubSeq(s, 1, Len(s) - 1)) ELSE s

StripSign(s) == IF s # <<>> /\ Head(s) \in {"+", "-"} THEN Tail(s) ELSE s

\* String(n) for an integer n
RECURSIVE NatToStr(_)
NatToStr(n) == IF n < 10 THEN <<DigitChar(n)>>
               ELSE NatToStr(n \div 10) \o <<DigitChar(n % 10)>>

IntToStr(n) == IF n < 0 THEN <<"-">> \o NatToStr(0 - n) ELSE NatToStr(n)

\* value of a run of decimal digits
RECURSIVE DigitsVal(_)
DigitsVal(s) == IF s = <<>> THEN 0
                ELSE 10 * DigitsVal(SubSeq(s, 1, Len(s) - 1)) + DigitVal(s[Len(s)])

\* the longest prefix of s made of digits
RECURSIVE LeadingDigits(_)
LeadingDigits(s) == IF s # <<>> /\ Head(s) \in Digits
                    THEN <<Head(s)>> \o LeadingDigits(Tail(s)) ELSE <<>>

\* -------------------------------------------------------- JavaScript values
\* a number, NaN, null, undefined or a string
Num(n) == [t |-> "num", n |-> n, s |-> <<>>]
NaN == [t |-> "nan", n |-> 0, s |-> <<>>]
Null == [t |-> "null", n |-> 0, s |-> <<>>]
Undefined == [t |-> "undef", n |-> 0, s |-> <<>>]
Str(s) == [t |-> "str", n |-> 0, s |-> s]

\* ToBoolean
Truthy(v) ==
  CASE v.t = "num" -> v.n # 0
    [] v.t = "str" -> v.s # <<>>
    [] OTHER -> FALSE

\* ToString, as a template literal interpolates a value
ToText(v) ==
  CASE v.t = "num" -> IntToStr(v.n)
    [] v.t = "str" -> v.s
    [] v.t = "nan" -> <<"N", "a", "N">>
    [] v.t = "null" -> <<"n", "u", "l", "l">>
    [] OTHER -> <<"u", "n", "d", "e", "f", "i", "n", "e", "d">>

\* StrDecimalLiteral without its sign: digits, at most one dot, a digit on
\* at least one side of it
IsMantissa(m) ==
  \/ IsDigits(m)
  \/ \E k \in 1..Len(m) :
       /\ m[k] = "."
       /\ Len(m) > 1
       /\ AllDigits(SubSeq(m, 1, k - 1))
       /\ AllDigits(Drop(m, k))

IsExponent(x) ==
  \/ x = <<>>
  \/ /\ Len(x) >= 2
     /\ x[1] \in {"e", "E"}
     /\ IsDigits(StripSign(Tail(x)))

\* the string converts to a number other than NaN: Number(s), for the
\* characters of Alphabet and Prefix (no hex, octal, binary or Infinity)
IsNumericString(s) ==
  LET t == TrimRight(TrimLeft(s))
      u == StripSign(t)
  IN  \/ t = <<>>
      \/ \E i \in 1..Len(u) : IsMantissa(SubSeq(u, 1, i)) /\ IsExponent(Drop(u, i))

\* isNaN(v)
IsNaN(v) ==
  CASE v.t = "num" -> FALSE
    [] v.t = "str" -> ~IsNumericString(v.s)
    [] v.t = "null" -> FALSE
    [] OTHER -> TRUE

\* parseInt(v): leading white space, a sign, then the longest run of digits
ParseInt(v) ==
  LET t == TrimLeft(ToText(v))
      neg == t # <<>> /\ Head(t) = "-"
      d == LeadingDigits(StripSign(t))
  IN  IF d = <<>> THEN NaN
      ELSE Num(IF neg THEN 0 - DigitsVal(d) ELSE DigitsVal(d))

\* s.startsWith(p)
StartsWith(s, p) == Len(s) >= Len(p) /\ SubSeq(s, 1, Len(p)) = p


\* ------------------------------------------------------------ the backend
\* names of the fields of a table: a name, the same name in another case,
\* and a name that Number() converts
NamePool == {<<"e">>, <<"E">>, <<"-", "1">>}
FieldRecs == [id : 1..MaxId, name : NamePool]
\* a field list has one entry per field id
FieldLists ==
  UNION {{l \in [1..n -> FieldRecs] :
            \A i, j \in 1..n : i # j => l[i].id # l[j].id} : n \in 0..MaxFields}

\* uploaded-file descriptors the upload endpoint may answer with
Files == {[name |-> "a.jpg", url |-> "/media/a.jpg"],
          [name |-> "b.jpg", url |-> "/media/b.jpg"]}
NoFile == [name |-> "", url |-> ""]
\* row objects the PATCH endpoint may answer with
RowBodies == {"row_v1", "row_v2"}
NoRow == ""

\* The row that PATCH /api/database/rows/table/{table}/{row}/ is for: what
\* its file fields held at first, and the payloads the backend has applied
\* to it, in order.
NoPatches == [initial |-> <<>>, applied |-> <<>>]

\* the backend applies a PATCH: each key of the payload is set to its value
ApplyPatch(b, body) ==
  [b EXCEPT !.row.applied =
     Append(@, [keys |-> body.keys, value |-> body.value])]

\* what the row holds in the field of that key
CellOf(b, key) ==
  LET hits == {i \in 1..Len(b.row.applied) : key \in b.row.applied[i].keys}
  IN  IF hits = {} THEN b.row.initial
      ELSE b.row.applied[CHOOSE i \in hits : \A j \in hits : j <= i].value

\* The hierarchy the structure endpoints serve.  A table is its field types
\* and its number of rows; an application is its type and its tables; a
\* workspace is its applications.  Ids follow from the position: workspace i
\* has id i, its j-th application id 10i + j, and so on down.
FieldTypeLists ==
  {<<>>, <<"text", "file">>, <<"single_select", "link_row", "multiple_select">>}
RowTotals == {0, 3}
TableShapes == [ftypes : FieldTypeLists, rows : RowTotals]

\* sequences of exactly n tables
RECURSIVE TableSeqs(_)
TableSeqs(n) ==
  IF n = 0 THEN {<<>>}
  ELSE {<<t>> \o r : t \in TableShapes, r \in TableSeqs(n - 1)}

\* applications that are n entities: a non-database application has no
\* tables
AppsOfSize(n) ==
  {[type |-> "database", tables |-> ts] : ts \in TableSeqs(n - 1)}
  \cup (IF n = 1 THEN {[type |-> "form", tables |-> <<>>]} ELSE {})

\* sequences of applications that are n entities together
RECURSIVE AppSeqs(_)
AppSeqs(n) ==
  IF n = 0 THEN {<<>>}
  ELSE UNION {{<<a>> \o r : a \in AppsOfSize(k), r \in AppSeqs(n - k)} :
                k \in 1..n}

\* sequences of workspaces that are n entities together
RECURSIVE WorkspaceSeqs(_)
WorkspaceSeqs(n) ==
  IF n = 0 THEN {<<>>}
  ELSE UNION {{<<[apps |-> as]>> \o r :
                 as \in AppSeqs(k - 1), r \in WorkspaceSeqs(n - k)} :
                k \in 1..n}

Hierarchies == UNION {WorkspaceSeqs(n) : n \in 0..MaxEntities}

\* GET /api/workspaces/
ServeWorkspaces(b) ==
  [i \in 1..Len(b.workspaces) |-> [id |-> i, name |-> "Workspace"]]

\* GET /api/applications/workspace/{id}/
ServeApplications(b, wsId) ==
  [j \in 1..Len(b.workspaces[wsId].apps) |->
     [id |-> 10 * wsId + j, name |-> "App",
      type |-> b.workspaces[wsId].apps[j].type]]

BackendApp(b, appId) == b.workspaces[appId \div 10].apps[appId % 10]
BackendTable(b, tableId) == BackendApp(b, tableId \div 10).tables[tableId % 10]

\* GET /api/database/tables/database/{id}/
ServeTables(b, appId) ==
  [k \in 1..Len(BackendApp(b, appId).tables) |->
     [id |-> 10 * appId + k, name |-> "Table", order |-> k]]

\* GET /api/database/fields/table/{id}/
ServeFields(b, tableId) ==
  [m \in 1..Len(BackendTable(b, tableId).ftypes) |->
     [id |-> 10 * tableId + m, name |-> "Field",
      type |-> BackendTable(b, tableId).ftypes[m],
      primary |-> (m = 1), order |-> m]]

Min(a, b) == IF a < b THEN a ELSE b

\* GET /api/database/rows/table/{id}/?size={size}: the total count and one
\* page of at most size rows
ServeRows(b, tableId, size) ==
  [count |-> BackendTable(b, tableId).rows,
   results |-> [r \in 1..Min(size, BackendTable(b, tableId).rows) |->
                  [id |-> r]]]

\* How a fetch ends: the promise rejects (transport failure); a success
\* status whose body parses ("ok") or does not ("badjson"); a non-success
\* status whose body text is readable ("status") or is cut off ("aborted").
Responses ==
  {[kind |-> "reject", status |-> "0"],
   [kind |-> "ok", status |-> "200"],
   [kind |-> "badjson", status |-> "200"]}
  \cup [kind : {"status", "aborted"}, status : {"404", "500"}]

StatusText(status) ==
  CASE status = "404" -> "Not Found"
    [] status = "500" -> "Internal Server Error"
    [] OTHER -> "OK"

\* messages of the errors the runtime raises
NetworkMsg == <<"Network error">>
JsonMsg == <<"Invalid JSON">>
BodyMsg == <<"Body read failed">>
\* the body text of a non-success response
ErrorText == "Server error"

\* ------------------------------------------------------------- getFieldId
\* getFieldId without the numeric test on strings: only a number is an id
GetFieldIdDirectNumbersOnly(ref) ==
  IF ref.t = "num"
  THEN [done |-> TRUE, value |-> ParseInt(ref)]
  ELSE IF ref.t # "str"
  THEN [done |-> TRUE, value |-> Null]
  ELSE IF StartsWith(ref.s, Prefix) /\ ~IsNaN(Str(Drop(ref.s, Len(Prefix))))
  THEN [done |-> TRUE, value |-> ParseInt(Str(Drop(ref.s, Len(Prefix))))]
  ELSE [done |-> FALSE, value |-> Null]

\* getFieldId parsing the prefixed reference without stripping "field_"
GetFieldIdDirectNoStrip(ref) ==
  IF ~IsNaN(ref) \/ IsDigits(ToText(ref))
  THEN [done |-> TRUE, value |-> ParseInt(ref)]
  ELSE IF ref.t # "str"
  THEN [done |-> TRUE, value |-> Null]
  ELSE IF StartsWith(ref.s, Prefix) /\ ~IsNaN(Str(Drop(ref.s, Len(Prefix))))
  THEN [done |-> TRUE, value |-> ParseInt(ref)]
  ELSE [done |-> FALSE, value |-> Null]

\* The part of getFieldId before its fetch: done with a value, or not done.
GetFieldIdDirect(ref) ==
  IF ~IsNaN(ref) \/ IsDigits(ToText(ref))
  THEN [done |-> TRUE, value |-> ParseInt(ref)]
  ELSE IF ref.t # "str"
  THEN [done |-> TRUE, value |-> Null]
  ELSE IF StartsWith(ref.s, Prefix) /\ ~IsNaN(Str(Drop(ref.s, Len(Prefix))))
  THEN [done |-> TRUE, value |-> ParseInt(Str(Drop(ref.s, Len(Prefix))))]
  ELSE [done |-> FALSE, value |-> Null]

\* fields.find(f => f.name === fieldNameOrId): index of the first match, or 0
FindByName(fields, name) ==
  IF \E i \in 1..Len(fields) : fields[i].name = name
  THEN CHOOSE i \in 1..Len(fields) :
         /\ fields[i].name = name
         /\ \A j \in 1..(i - 1) : fields[j].name # name
  ELSE 0

\* The part of getFieldId after its fetch; every failure is caught and
\* becomes null.
GetFieldIdLookup(ref, resp, fields) ==
  IF resp.kind # "ok" THEN Null
  ELSE LET i == FindByName(fields, ref.s)
       IN  IF i = 0 THEN Null ELSE Num(fields[i].id)


\* ------------------------------------------------------------------ state
VARIABLES
  tool,          \* the function that was called
  env,           \* process.env: is BASEROW_API_URL / BASEROW_API_TOKEN set
  args,          \* the arguments of the call
  pc,            \* where the call stands
  requests,      \* the fetch calls issued so far, in order
  uploadResult,  \* the parsed body of the upload response
  fieldId,       \* what getFieldId returned
  outcome,       \* how the call ended: a returned result or a thrown error
  responses,     \* what the backend answered to each request, in order
  backend,       \* the backend's data: the field list of the upload's
                 \* table, the hierarchy of workspaces, and the row
                 \* that the PATCH is for
  walk,          \* the locals of readBaserowStructure
  handler,       \* the CallToolRequest being handled, and its reply
  credentials    \* the values of BASEROW_API_URL and BASEROW_API_TOKEN: in
                 \* process.env, in the constants of the running function,
                 \* and as each request carried them

vars ==
  <<tool, env, args, pc, requests, uploadResult, fieldId, outcome, responses,
    backend, walk, handler, credentials>>

\* values that process.env may hold for the two variables
CredentialValues ==
  {[url |-> "https://a.example", token |-> "t1"],
   [url |-> "https://b.example", token |-> "t2"]}
NoLocals == [url |-> "", token |-> ""]
NoCredentials ==
  [env |-> [url |-> "https://a.example", token |-> "t1"],
   locals |-> NoLocals, sent |-> <<>>]

\* the base URL and the token of a fetch, read from process.env when the
\* fetch is made
RequestCredentialsLive(locals, current) == current

\* fetch(`${BASEROW_API_URL}/...`, {headers: {'Authorization':
\* `Token ${BASEROW_API_TOKEN}`}}): the constants of the function
RequestCredentials(locals, current) == locals

\* const BASEROW_API_URL = process.env.BASEROW_API_URL (and the token) at
\* the start of the function; every request made in the step carries the
\* credentials of its fetch
Carry ==
  LET locals == IF pc = "start" THEN credentials.env ELSE credentials.locals
  IN  credentials' =
        [credentials EXCEPT
           !.locals = locals,
           !.sent = @ \o [i \in 1..(Len(requests') - Len(requests)) |->
                            RequestCredentials(locals, credentials.env)]]

\* an optional string argument of a tool request: left out, or given
NotGiven == [given |-> FALSE, text |-> ""]
Given(text) == [given |-> TRUE, text |-> text]

NoReply == [kind |-> "none", isError |-> FALSE, text |-> <<>>]
\* no tool request: the function was called directly
NoHandler ==
  [name |-> "", tableId |-> NotGiven, rowId |-> NotGiven, valid |-> TRUE,
   phase |-> "none", reply |-> NoReply]

\* strings of Alphabet up to length n
StringsUpTo(n) == UNION {[1..k -> Alphabet] : k \in 0..n}
\* field references: free text, "field_" followed by free text, numbers
AllRefs ==
  {Str(s) : s \in StringsUpTo(MaxLen)}
  \cup {Str(Prefix \o s) : s \in StringsUpTo(MaxLen)}
  \cup {Num(n) : n \in 0..MaxNum}

\* the field references the upload calls are tried with: one of each kind
UploadRefs ==
  {Undefined, Str(<<>>), Num(0), Num(1),
   Str(<<"1">>), Str(<<"0">>), Str(<<"-", "1">>), Str(<<" ">>),
   Str(<<"e">>), Str(<<"E">>), Str(<<".">>),
   Str(Prefix), Str(Prefix \o <<"2">>), Str(Prefix \o <<"0">>),
   Str(Prefix \o <<"e">>)}

\* an absent or empty string argument
Absent == ""
Url == "https://example.com/image.jpg"
Basename == "file.jpg"

NoResult ==
  [keys |-> {}, success |-> FALSE, uploaded_file |-> NoFile,
   updated_row |-> NoRow, row_update_error |-> <<>>]
Pending == [kind |-> "pending", result |-> NoResult, error |-> <<>>]
Returned(r) == [kind |-> "returned", result |-> r, error |-> <<>>]
Thrown(msg) == [kind |-> "thrown", result |-> NoResult, error |-> msg]

ConfigMsg ==
  <<"BASEROW_API_URL and BASEROW_API_TOKEN environment variables are required">>

\* the environment check that fires only when both variables are missing
EnvMissingBoth(e) == ~e.url /\ ~e.token

\* if (!BASEROW_API_URL || !BASEROW_API_TOKEN)
EnvMissing(e) == ~e.url \/ ~e.token

\* the missing-file error without the path
FileMissingMsgNoPath(a) == <<"File not found">>

\* throw new Error(`File not found: ${filePath}`)
FileMissingMsg(a) == <<"File not found: ", a.filePath>>

\* the message prefix of the catch block of each upload function
CatchPrefix(t) ==
  IF t = "uploadFile" THEN <<"File upload failed: ">> ELSE <<"Upload failed: ">>

NoBody == [url |-> "", filename |-> "", keys |-> {}, value |-> <<>>]
Request(method, path, body) == [method |-> method, path |-> path, body |-> body]

FieldsRequest(tableId) ==
  Request("GET", <<"/api/database/fields/table/", tableId, "/">>, NoBody)

UploadRequest(t, a) ==
  IF t = "uploadFile"
  THEN Request("POST", <<"/api/user-files/upload-file/">>,
               [NoBody EXCEPT !.filename =
                  IF a.filename # Absent THEN a.filename ELSE Basename])
  ELSE Request("POST", <<"/api/user-files/upload-via-url/">>,
               [NoBody EXCEPT !.url = a.url, !.filename = a.filename])

\* the payload that carries the descriptor twice
UpdatePayloadDoubled(fid, file) ==
  [NoBody EXCEPT !.keys = {Prefix \o ToText(fid)}, !.value = <<file, file>>]

\* updatePayload = { [`field_${fieldId}`]: [uploadResult] }
UpdatePayload(fid, file) ==
  [NoBody EXCEPT !.keys = {Prefix \o ToText(fid)}, !.value = <<file>>]

PatchRequest(a, fid, file) ==
  Request("PATCH", <<"/api/database/rows/table/", a.tableId, "/", a.rowId, "/">>,
          UpdatePayload(fid, file))

ResolveErrorMsg(a) ==
  <<"Failed to resolve field \"">> \o ToText(a.fieldName)
    \o <<"\" in table ", a.tableId>>

\* the row-update message without the status text
UpdateErrorMsgNoText(resp) == <<"Failed to update row: ", resp.status>>

UpdateErrorMsg(resp) ==
  <<"Failed to update row: ", resp.status, " ", StatusText(resp.status)>>

UploadOnly(file) ==
  [NoResult EXCEPT !.keys = {"success", "uploaded_file"},
                   !.success = TRUE, !.uploaded_file = file]
ResolveFailed(file, a) ==
  [UploadOnly(file) EXCEPT !.keys = @ \cup {"row_update_error"},
                           !.row_update_error = ResolveErrorMsg(a)]
\* the failed-update result that also carries an updated_row
UpdateFailedWithRow(file, resp) ==
  [UploadOnly(file) EXCEPT !.keys = @ \cup {"row_update_error", "updated_row"},
                           !.row_update_error = UpdateErrorMsg(resp)]

UpdateFailed(file, resp) ==
  [UploadOnly(file) EXCEPT !.keys = @ \cup {"row_update_error"},
                           !.row_update_error = UpdateErrorMsg(resp)]
\* the attach result that leaves the patched row out
UpdatedWithoutRow(file, row) == UploadOnly(file)

Updated(file, row) ==
  [UploadOnly(file) EXCEPT !.keys = @ \cup {"updated_row"},
                           !.updated_row = row]

\* if (tableId && rowId && fieldName)
AttachRequested(a) ==
  a.tableId # Absent /\ a.rowId # Absent /\ Truthy(a.fieldName)


\* what the backend answered: a body only comes with an "ok" answer
Answer(resp, file, fields, row) ==
  [kind |-> resp.kind, status |-> resp.status,
   file |-> IF resp.kind = "ok" THEN file ELSE NoFile,
   fields |-> IF resp.kind = "ok" THEN fields ELSE <<>>,
   row |-> IF resp.kind = "ok" THEN row ELSE NoRow]

\* -------------------------------------------------- uploadImageUrl, uploadFile
UploadTools == {"uploadImageUrl", "uploadFile"}

\* the upload failure message without the response body
UploadFailureMsgNoBody(resp) ==
  CASE resp.kind = "reject" -> NetworkMsg
    [] resp.kind = "status" ->
         <<"Upload failed: ", resp.status, " ", StatusText(resp.status)>>
    [] resp.kind = "aborted" -> BodyMsg
    [] OTHER -> JsonMsg

\* the error a failed upload response raises inside the try block
UploadFailureMsg(resp) ==
  CASE resp.kind = "reject" -> NetworkMsg
    [] resp.kind = "status" ->
         <<"Upload failed: ", resp.status, " ", StatusText(resp.status),
           ". ", ErrorText>>
    [] resp.kind = "aborted" -> BodyMsg
    [] OTHER -> JsonMsg

\* the end of the call where uploadFile takes a refused PATCH for a success
PatchOutcomePerTool(t, file, resp, row) ==
  CASE resp.kind = "reject" -> Thrown(CatchPrefix(t) \o NetworkMsg)
    [] resp.kind = "status" ->
         IF t = "uploadFile" THEN Returned(Updated(file, row))
         ELSE Returned(UpdateFailed(file, resp))
    [] resp.kind = "aborted" -> Thrown(CatchPrefix(t) \o BodyMsg)
    [] resp.kind = "badjson" -> Thrown(CatchPrefix(t) \o JsonMsg)
    [] OTHER -> Returned(Updated(file, row))

\* how the call ends once the PATCH is answered
PatchOutcome(t, file, resp, row) ==
  CASE resp.kind = "reject" -> Thrown(CatchPrefix(t) \o NetworkMsg)
    [] resp.kind = "status" -> Returned(UpdateFailed(file, resp))
    [] resp.kind = "aborted" -> Thrown(CatchPrefix(t) \o BodyMsg)
    [] resp.kind = "badjson" -> Thrown(CatchPrefix(t) \o JsonMsg)
    [] OTHER -> Returned(Updated(file, row))

\* The environment check, the file check of uploadFile, then the upload
\* request.
UploadCall ==
  /\ pc = "start"
  /\ tool \in UploadTools
  /\ IF EnvMissing(env)
     THEN /\ outcome' = Thrown(ConfigMsg)
          /\ pc' = "done"
          /\ UNCHANGED requests
     ELSE IF tool = "uploadFile" /\ ~args.fileExists
     THEN /\ outcome' = Thrown(CatchPrefix(tool) \o FileMissingMsg(args))
          /\ pc' = "done"
          /\ UNCHANGED requests
     ELSE /\ requests' = Append(requests, UploadRequest(tool, args))
          /\ pc' = "await_upload"
          /\ UNCHANGED outcome
  /\ UNCHANGED <<handler, tool, env, args, uploadResult, fieldId, responses, backend, walk>>
  /\ Carry

\* the orchestrator that sends the PATCH twice
AfterResolveTwice(fid, file) ==
  /\ fieldId' = fid
  /\ IF ~Truthy(fid)
     THEN /\ outcome' = Returned(ResolveFailed(file, args))
          /\ pc' = "done"
          /\ UNCHANGED requests
     ELSE /\ requests' = Append(Append(requests, PatchRequest(args, fid, file)),
                                PatchRequest(args, fid, file))
          /\ pc' = "await_patch"
          /\ UNCHANGED outcome

\* the orchestrator that asks for the field list again before the PATCH
AfterResolveRevalidates(fid, file) ==
  /\ fieldId' = fid
  /\ IF ~Truthy(fid)
     THEN /\ outcome' = Returned(ResolveFailed(file, args))
          /\ pc' = "done"
          /\ UNCHANGED requests
     ELSE /\ requests' = Append(Append(requests, FieldsRequest(args.tableId)),
                                PatchRequest(args, fid, file))
          /\ pc' = "await_patch"
          /\ UNCHANGED outcome

\* the orchestrator that sends the PATCH and returns without its answer
AfterResolveNoWait(fid, file) ==
  /\ fieldId' = fid
  /\ pc' = "done"
  /\ IF ~Truthy(fid)
     THEN /\ outcome' = Returned(ResolveFailed(file, args))
          /\ UNCHANGED requests
     ELSE /\ requests' = Append(requests, PatchRequest(args, fid, file))
          /\ outcome' = Returned(UploadOnly(file))

\* the orchestrator that sends the PATCH whatever getFieldId returned
AfterResolveAlways(fid, file) ==
  /\ fieldId' = fid
  /\ requests' = Append(requests, PatchRequest(args, fid, file))
  /\ pc' = "await_patch"
  /\ UNCHANGED outcome

\* The orchestrator once getFieldId has returned fid: the partial-success
\* result, or the PATCH request.
AfterResolve(fid, file) ==
  /\ fieldId' = fid
  /\ IF ~Truthy(fid)
     THEN /\ outcome' = Returned(ResolveFailed(file, args))
          /\ pc' = "done"
          /\ UNCHANGED requests
     ELSE /\ requests' = Append(requests, PatchRequest(args, fid, file))
          /\ pc' = "await_patch"
          /\ UNCHANGED outcome

\* The upload response arrives: a failure is thrown on; a success is parsed
\* and, when the attach triple was given, getFieldId is entered.
UploadResponds ==
  /\ pc = "await_upload"
  /\ \E resp \in Responses, file \in Files :
       /\ responses' = Append(responses, Answer(resp, file, <<>>, NoRow))
       /\ IF resp.kind # "ok"
          THEN /\ outcome' = Thrown(CatchPrefix(tool) \o UploadFailureMsg(resp))
               /\ pc' = "done"
               /\ UNCHANGED <<requests, uploadResult, fieldId>>
          ELSE /\ uploadResult' = file
               /\ IF ~AttachRequested(args)
                  THEN /\ outcome' = Returned(UploadOnly(file))
                       /\ pc' = "done"
                       /\ UNCHANGED <<requests, fieldId>>
                  ELSE IF GetFieldIdDirect(args.fieldName).done
                  THEN AfterResolve(GetFieldIdDirect(args.fieldName).value, file)
                  ELSE /\ requests' = Append(requests, FieldsRequest(args.tableId))
                       /\ pc' = "await_fields"
                       /\ UNCHANGED <<outcome, fieldId>>
  /\ UNCHANGED <<handler, tool, env, args, backend, walk>>
  /\ Carry

\* getFieldId called on its own
GetFieldIdCall ==
  /\ pc = "start"
  /\ tool = "getFieldId"
  /\ IF GetFieldIdDirect(args.fieldName).done
     THEN /\ fieldId' = GetFieldIdDirect(args.fieldName).value
          /\ outcome' = Returned(NoResult)
          /\ pc' = "done"
          /\ UNCHANGED requests
     ELSE /\ requests' = Append(requests, FieldsRequest(args.tableId))
          /\ pc' = "await_fields"
          /\ UNCHANGED <<outcome, fieldId>>
  /\ UNCHANGED <<handler, tool, env, args, uploadResult, responses, backend, walk>>
  /\ Carry

\* The field list arrives: getFieldId returns, and an upload call goes on.
FieldsResponds ==
  /\ pc = "await_fields"
  /\ \E resp \in Responses :
       /\ responses' =
            Append(responses, Answer(resp, NoFile, backend.fields, NoRow))
       /\ IF tool = "getFieldId"
          THEN /\ fieldId' =
                    GetFieldIdLookup(args.fieldName, resp, backend.fields)
               /\ outcome' = Returned(NoResult)
               /\ pc' = "done"
               /\ UNCHANGED requests
          ELSE AfterResolve(
                 GetFieldIdLookup(args.fieldName, resp, backend.fields),
                 uploadResult)
  /\ UNCHANGED <<handler, tool, env, args, uploadResult, backend, walk>>
  /\ Carry

\* whether the backend applied a PATCH that it answered in this way: a
\* transport failure may come before or after the row was written
PatchApplied(resp) ==
  CASE resp.kind \in {"ok", "badjson"} -> {TRUE}
    [] resp.kind = "reject" -> BOOLEAN
    [] OTHER -> {FALSE}

\* The PATCH response arrives.
PatchResponds ==
  /\ pc = "await_patch"
  /\ \E resp \in Responses, row \in RowBodies :
       /\ responses' = Append(responses, Answer(resp, NoFile, <<>>, row))
       /\ outcome' = PatchOutcome(tool, uploadResult, resp, row)
       /\ \E applied \in PatchApplied(resp) :
            backend' = IF applied
                       THEN ApplyPatch(backend, requests[Len(requests)].body)
                       ELSE backend
  /\ pc' = "done"
  /\ UNCHANGED <<handler, tool, env, args, requests, uploadResult, fieldId, walk,
                 credentials>>

Envs == [url : BOOLEAN, token : BOOLEAN]

\* ---------------------------------------------------- readBaserowStructure
DefaultMaxRows == 5

NoWorkspaceInfo == [id |-> 0, name |-> "", applications |-> <<>>]
NoAppInfo == [id |-> 0, name |-> "", type |-> "", tables |-> <<>>]
\* a tableInfo that starts with one row counted
NoTableInfoCounted ==
  [id |-> 0, name |-> "", order |-> 0, fields |-> <<>>, rowCount |-> 1,
   sampleRows |-> <<>>]

NoTableInfo ==
  [id |-> 0, name |-> "", order |-> 0, fields |-> <<>>, rowCount |-> 0,
   sampleRows |-> <<>>]
\* a summary that starts with one application counted
NoSummaryOffByOne ==
  [totalWorkspaces |-> 0, totalApplications |-> 1, totalTables |-> 0,
   totalFields |-> 0]

NoSummary ==
  [totalWorkspaces |-> 0, totalApplications |-> 0, totalTables |-> 0,
   totalFields |-> 0]
EmptyStructure == [workspaces |-> <<>>, summary |-> NoSummary]

\* the locals before the call: nothing fetched, nothing built
WalkIdle ==
  [includeRows |-> FALSE, maxRows |-> DefaultMaxRows,
   structure |-> EmptyStructure,
   workspacesData |-> <<>>, wi |-> 0, workspaceInfo |-> NoWorkspaceInfo,
   appsData |-> <<>>, ai |-> 0, appInfo |-> NoAppInfo,
   tablesData |-> <<>>, ti |-> 0, tableInfo |-> NoTableInfo]

\* the type-specific properties the walker adds to a field of that type
FieldExtension(type) ==
  CASE type = "file" -> {"fileTypes", "multipleFiles"}
    [] type \in {"single_select", "multiple_select"} -> {"selectOptions"}
    [] type = "link_row" -> {"linkRowTable", "linkRowTableId"}
    [] OTHER -> {}

\* the mapping that leaves the last field out
MapFieldsButLast(fieldsData) ==
  [m \in 1..(Len(fieldsData) - 1) |->
     [id |-> fieldsData[m].id, name |-> fieldsData[m].name,
      type |-> fieldsData[m].type, primary |-> fieldsData[m].primary,
      order |-> fieldsData[m].order, description |-> "null",
      extension |-> FieldExtension(fieldsData[m].type)]]

\* fieldsData.map(field => ({...}))
MapFields(fieldsData) ==
  [m \in 1..Len(fieldsData) |->
     [id |-> fieldsData[m].id, name |-> fieldsData[m].name,
      type |-> fieldsData[m].type, primary |-> fieldsData[m].primary,
      order |-> fieldsData[m].order, description |-> "null",
      extension |-> FieldExtension(fieldsData[m].type)]]

\* How the structure fetches end: the walker never reads the body of a
\* non-success answer, so one status stands for them all.
WalkResponses ==
  {r \in Responses : r.kind # "aborted" /\ r.status # "500"}

WalkPrefix == <<"Failed to read Baserow structure: ">>

\* the rethrown error without the message of its cause
WalkFatalBare(resp) == Thrown(WalkPrefix)

\* the error the outer catch rethrows when a fetch rejects or a body does
\* not parse
WalkFatal(resp) ==
  Thrown(WalkPrefix \o (IF resp.kind = "reject" THEN NetworkMsg ELSE JsonMsg))

\* the fetch made with another method
WalkRequestPost(path) == Request("POST", path, NoBody)

\* fetch(url, {headers}): no method given, a GET
WalkRequest(path) == Request("GET", path, NoBody)

WalkMessage(summary) ==
  <<"Found ", ToString(summary.totalWorkspaces), " workspaces, ",
    ToString(summary.totalApplications), " applications, ",
    ToString(summary.totalTables), " tables, and ",
    ToString(summary.totalFields), " fields">>

WalkResult(structure) ==
  [keys |-> {"success", "structure", "message"}, success |-> TRUE,
   structure |-> structure, message |-> WalkMessage(structure.summary)]

\* the unchanged rest of an action of the walker
WalkFrame ==
  /\ UNCHANGED <<handler, tool, env, args, uploadResult, fieldId, backend>>
  /\ Carry

\* The environment check, then the workspaces request.
WalkCall ==
  /\ pc = "start"
  /\ tool = "readBaserowStructure"
  /\ IF EnvMissing(env)
     THEN /\ outcome' = Thrown(ConfigMsg)
          /\ pc' = "done"
          /\ UNCHANGED <<requests, walk>>
     ELSE /\ walk' = [WalkIdle EXCEPT
                        !.includeRows = args.includeRows,
                        !.maxRows = args.maxRows]
          /\ requests' = Append(requests, WalkRequest(<<"/api/workspaces/">>))
          /\ pc' = "await_workspaces"
          /\ UNCHANGED outcome
  /\ UNCHANGED responses
  /\ WalkFrame

\* The workspaces answer: any failure of the root fetch is fatal.
WorkspacesResponds ==
  /\ pc = "await_workspaces"
  /\ \E resp \in WalkResponses :
       /\ responses' = Append(responses, Answer(resp, NoFile, <<>>, NoRow))
       /\ CASE resp.kind = "ok" ->
                 /\ walk' = [walk EXCEPT
                      !.workspacesData = ServeWorkspaces(backend),
                      !.wi = 1,
                      !.structure.summary.totalWorkspaces =
                         Len(ServeWorkspaces(backend))]
                 /\ pc' = "workspace_loop"
                 /\ UNCHANGED outcome
            [] resp.kind = "status" ->
                 /\ outcome' = Thrown(WalkPrefix \o
                      <<"Failed to fetch workspaces: ", resp.status, " ",
                        StatusText(resp.status)>>)
                 /\ pc' = "done"
                 /\ UNCHANGED walk
            [] OTHER ->
                 /\ outcome' = WalkFatal(resp)
                 /\ pc' = "done"
                 /\ UNCHANGED walk
  /\ UNCHANGED requests
  /\ WalkFrame

\* Head of the loop over the workspaces: the applications request of the
\* next workspace, or the result.
WorkspaceLoop ==
  /\ pc = "workspace_loop"
  /\ IF walk.wi > Len(walk.workspacesData)
     THEN /\ outcome' = Returned(WalkResult(walk.structure))
          /\ pc' = "done"
          /\ UNCHANGED <<requests, walk>>
     ELSE /\ walk' = [walk EXCEPT !.workspaceInfo =
                        [id |-> walk.workspacesData[walk.wi].id,
                         name |-> walk.workspacesData[walk.wi].name,
                         applications |-> <<>>]]
          /\ requests' = Append(requests, WalkRequest(
               <<"/api/applications/workspace/",
                 ToString(walk.workspacesData[walk.wi].id), "/">>))
          /\ pc' = "await_applications"
          /\ UNCHANGED outcome
  /\ UNCHANGED responses
  /\ WalkFrame

\* the workspace put in front of the ones already in the structure
PushWorkspacePrepend(w) ==
  [w EXCEPT !.structure.workspaces = <<w.workspaceInfo>> \o @,
            !.wi = @ + 1]

\* structure.workspaces.push(workspaceInfo), and on to the next workspace
PushWorkspace(w) ==
  [w EXCEPT !.structure.workspaces = Append(@, w.workspaceInfo),
            !.wi = @ + 1]

\* The applications answer: a non-success status leaves the workspace with
\* no applications.
ApplicationsResponds ==
  /\ pc = "await_applications"
  /\ \E resp \in WalkResponses :
       /\ responses' = Append(responses, Answer(resp, NoFile, <<>>, NoRow))
       /\ CASE resp.kind = "ok" ->
                 /\ walk' = [walk EXCEPT
                      !.appsData = ServeApplications(backend, walk.workspaceInfo.id),
                      !.ai = 1,
                      !.structure.summary.totalApplications =
                         @ + Len(ServeApplications(backend, walk.workspaceInfo.id))]
                 /\ pc' = "application_loop"
                 /\ UNCHANGED outcome
            [] resp.kind = "status" ->
                 /\ walk' = PushWorkspace(walk)
                 /\ pc' = "workspace_loop"
                 /\ UNCHANGED outcome
            [] OTHER ->
                 /\ outcome' = WalkFatal(resp)
                 /\ pc' = "done"
                 /\ UNCHANGED walk
  /\ UNCHANGED requests
  /\ WalkFrame


\* the application put in front of the ones already in the workspace
PushApplicationPrepend(w) ==
  [w EXCEPT !.workspaceInfo.applications = <<w.appInfo>> \o @,
            !.ai = @ + 1]

\* workspaceInfo.applications.push(appInfo), and on to the next application
PushApplication(w) ==
  [w EXCEPT !.workspaceInfo.applications = Append(@, w.appInfo),
            !.ai = @ + 1]

\* the type test that passes over no application
SkipsNothing(application) == FALSE

\* if (application.type !== 'database') continue
SkipsApplication(application) == application.type # "database"

\* Head of the loop over the applications: an application of another type
\* is passed over; a database's tables are requested; after the last one
\* the workspace is added to the structure.
ApplicationLoop ==
  /\ pc = "application_loop"
  /\ IF walk.ai > Len(walk.appsData)
     THEN /\ walk' = PushWorkspace(walk)
          /\ pc' = "workspace_loop"
          /\ UNCHANGED requests
     ELSE IF SkipsApplication(walk.appsData[walk.ai])
     THEN /\ walk' = [walk EXCEPT !.ai = @ + 1]
          /\ UNCHANGED <<pc, requests>>
     ELSE /\ walk' = [walk EXCEPT !.appInfo =
                        [id |-> walk.appsData[walk.ai].id,
                         name |-> walk.appsData[walk.ai].name,
                         type |-> walk.appsData[walk.ai].type,
                         tables |-> <<>>]]
          /\ requests' = Append(requests, WalkRequest(
               <<"/api/database/tables/database/",
                 ToString(walk.appsData[walk.ai].id), "/">>))
          /\ pc' = "await_tables"
  /\ UNCHANGED <<outcome, responses>>
  /\ WalkFrame

\* The tables answer: a non-success status leaves the application with no
\* tables.
TablesResponds ==
  /\ pc = "await_tables"
  /\ \E resp \in WalkResponses :
       /\ responses' = Append(responses, Answer(resp, NoFile, <<>>, NoRow))
       /\ CASE resp.kind = "ok" ->
                 /\ walk' = [walk EXCEPT
                      !.tablesData = ServeTables(backend, walk.appInfo.id),
                      !.ti = 1,
                      !.structure.summary.totalTables =
                         @ + Len(ServeTables(backend, walk.appInfo.id))]
                 /\ pc' = "table_loop"
                 /\ UNCHANGED outcome
            [] resp.kind = "status" ->
                 /\ walk' = PushApplication(walk)
                 /\ pc' = "application_loop"
                 /\ UNCHANGED outcome
            [] OTHER ->
                 /\ outcome' = WalkFatal(resp)
                 /\ pc' = "done"
                 /\ UNCHANGED walk
  /\ UNCHANGED requests
  /\ WalkFrame

\* Head of the loop over the tables: the fields request of the next table,
\* or the application is added to its workspace.
TableLoop ==
  /\ pc = "table_loop"
  /\ IF walk.ti > Len(walk.tablesData)
     THEN /\ walk' = PushApplication(walk)
          /\ pc' = "application_loop"
          /\ UNCHANGED requests
     ELSE /\ walk' = [walk EXCEPT !.tableInfo =
                        [NoTableInfo EXCEPT
                           !.id = walk.tablesData[walk.ti].id,
                           !.name = walk.tablesData[walk.ti].name,
                           !.order = walk.tablesData[walk.ti].order]]
          /\ requests' = Append(requests, WalkRequest(
               <<"/api/database/fields/table/",
                 ToString(walk.tablesData[walk.ti].id), "/">>))
          /\ pc' = "await_table_fields"
  /\ UNCHANGED <<outcome, responses>>
  /\ WalkFrame

\* the table added, and the same table gone through a second time
PushTableTwice(w) ==
  [w EXCEPT !.appInfo.tables = Append(@, w.tableInfo),
            !.ti = IF Len(w.appInfo.tables) % 2 = 0 THEN @ ELSE @ + 1]

\* appInfo.tables.push(tableInfo), and on to the next table
PushTable(w) ==
  [w EXCEPT !.appInfo.tables = Append(@, w.tableInfo),
            !.ti = @ + 1]

\* the rows request that always asks for the default page size
RowsRequestDefaultSize(tableId, maxRows) ==
  Request("GET", <<"/api/database/rows/table/", ToString(tableId),
                   "/?size=", ToString(DefaultMaxRows)>>, NoBody)

RowsRequest(tableId, maxRows) ==
  WalkRequest(<<"/api/database/rows/table/", ToString(tableId),
                "/?size=", ToString(maxRows)>>)

\* The fields answer of a table: a success fills tableInfo.fields, a
\* non-success status leaves them empty; then the rows are requested when
\* includeRows is set, else the table is added to its application.
TableFieldsResponds ==
  /\ pc = "await_table_fields"
  /\ \E resp \in WalkResponses :
       /\ responses' = Append(responses, Answer(resp, NoFile, <<>>, NoRow))
       /\ IF resp.kind \in {"reject", "badjson"}
          THEN /\ outcome' = WalkFatal(resp)
               /\ pc' = "done"
               /\ UNCHANGED <<walk, requests>>
          ELSE LET got == IF resp.kind = "ok"
                          THEN [walk EXCEPT
                            !.tableInfo.fields =
                               MapFields(ServeFields(backend, walk.tableInfo.id)),
                            !.structure.summary.totalFields =
                               @ + Len(ServeFields(backend, walk.tableInfo.id))]
                          ELSE walk
               IN  /\ UNCHANGED outcome
                   /\ IF walk.includeRows
                      THEN /\ walk' = got
                           /\ requests' = Append(requests,
                                RowsRequest(walk.tableInfo.id, walk.maxRows))
                           /\ pc' = "await_rows"
                      ELSE /\ walk' = PushTable(got)
                           /\ pc' = "table_loop"
                           /\ UNCHANGED requests
  /\ WalkFrame

\* readBaserowStructure(includeRows = false, maxRows = 5)
WalkSizes == {0, 1, DefaultMaxRows}

\* the page size a rows request asks the backend for
RequestedSize(req) == CHOOSE n \in WalkSizes : ToString(n) = req.path[4]

\* The rows answer of a table: a success fills rowCount and sampleRows, a
\* non-success status leaves them 0 and empty.
RowsResponds ==
  /\ pc = "await_rows"
  /\ \E resp \in WalkResponses :
       /\ responses' = Append(responses, Answer(resp, NoFile, <<>>, NoRow))
       /\ IF resp.kind \in {"reject", "badjson"}
          THEN /\ outcome' = WalkFatal(resp)
               /\ pc' = "done"
               /\ UNCHANGED walk
          ELSE /\ UNCHANGED outcome
               /\ pc' = "table_loop"
               /\ walk' = PushTable(
                    IF resp.kind = "ok"
                    THEN [walk EXCEPT
                      !.tableInfo.rowCount =
                         ServeRows(backend, walk.tableInfo.id,
                           RequestedSize(requests[Len(requests)])).count,
                      !.tableInfo.sampleRows =
                         ServeRows(backend, walk.tableInfo.id,
                           RequestedSize(requests[Len(requests)])).results]
                    ELSE walk)
  /\ UNCHANGED requests
  /\ WalkFrame

WalkArgs == [includeRows : BOOLEAN, maxRows : WalkSizes]

\* one call of readBaserowStructure
InitWalk ==
  /\ tool = "readBaserowStructure"
  /\ env \in Envs
  /\ args \in WalkArgs
  /\ pc = "start"
  /\ requests = <<>>
  /\ responses = <<>>
  /\ uploadResult = NoFile
  /\ fieldId = Undefined
  /\ outcome = Pending
  /\ backend \in [fields : {<<>>}, workspaces : Hierarchies, row : {NoPatches}]
  /\ walk = WalkIdle
  /\ handler = NoHandler
  /\ credentials = NoCredentials

NextWalk ==
  \/ WalkCall
  \/ WorkspacesResponds
  \/ WorkspaceLoop
  \/ ApplicationsResponds
  \/ ApplicationLoop
  \/ TablesResponds
  \/ TableLoop
  \/ TableFieldsResponds
  \/ RowsResponds

SpecWalk == InitWalk /\ [][NextWalk]_vars

\* one call that leaves maxRows at its default
InitWalkDefault == InitWalk /\ args.maxRows = DefaultMaxRows

SpecWalkDefault == InitWalkDefault /\ [][NextWalk]_vars

\* readBaserowStructure is called a second time, after the first call
\* has ended; requests and responses go on recording both calls
CallAgain ==
  /\ pc = "done"
  /\ tool = "readBaserowStructure"
  /\ Cardinality({i \in 1..Len(requests) :
                    requests[i].path = <<"/api/workspaces/">>}) = 1
  /\ pc' = "start"
  /\ outcome' = Pending
  /\ UNCHANGED <<tool, env, args, requests, uploadResult, fieldId, responses,
                 backend, walk, handler, credentials>>

\* hierarchies of up to three entities
SmallHierarchies == UNION {WorkspaceSeqs(n) : n \in 0..3}

InitWalkTwice == InitWalkDefault /\ backend.workspaces \in SmallHierarchies

NextWalkTwice == NextWalk \/ CallAgain
SpecWalkTwice == InitWalkTwice /\ [][NextWalkTwice]_vars

\* every awaited fetch settles and the function runs on after it
SpecWalkFair ==
  InitWalkDefault /\ [][NextWalk]_vars /\ WF_vars(NextWalk)

UploadArgs ==
  [url : {Url}, filePath : {"/tmp/file.jpg"}, fileExists : BOOLEAN,
   filename : {Absent, "custom.jpg"}, tableId : {Absent, "12"},
   rowId : {Absent, "34"}, fieldName : UploadRefs]

ResolveArgs ==
  [url : {Url}, filePath : {"/tmp/file.jpg"}, fileExists : {TRUE},
   filename : {Absent}, tableId : {"12"}, rowId : {Absent},
   fieldName : AllRefs \ {Str(<<>>)}]

InitCommon ==
  /\ pc = "start"
  /\ requests = <<>>
  /\ responses = <<>>
  /\ uploadResult = NoFile
  /\ fieldId = Undefined
  /\ outcome = Pending
  /\ backend \in [fields : FieldLists, workspaces : {<<>>}, row : {NoPatches}]
  /\ walk = WalkIdle
  /\ handler = NoHandler
  /\ credentials = NoCredentials

\* one call of uploadImageUrl or uploadFile
InitUpload ==
  /\ tool \in UploadTools
  /\ env \in Envs
  /\ args \in UploadArgs
  /\ InitCommon

NextUpload == UploadCall \/ UploadResponds \/ FieldsResponds \/ PatchResponds

SpecUpload == InitUpload /\ [][NextUpload]_vars

\* one call of getFieldId
InitResolve ==
  /\ tool = "getFieldId"
  /\ env = [url |-> TRUE, token |-> TRUE]
  /\ args \in ResolveArgs
  /\ InitCommon

NextResolve == GetFieldIdCall \/ FieldsResponds

SpecResolve == InitResolve /\ [][NextResolve]_vars

\* one call of any of the three exported functions
InitCalls == InitUpload \/ InitWalk
NextCalls == NextUpload \/ NextWalk
SpecCalls == InitCalls /\ [][NextCalls]_vars

\* process.env is assigned other values while a call is under way
EnvChanges ==
  /\ pc \notin {"start", "done"}
  /\ \E v \in CredentialValues \ {credentials.env} :
       credentials' = [credentials EXCEPT !.env = v]
  /\ UNCHANGED <<tool, env, args, pc, requests, uploadResult, fieldId, outcome,
                 responses, backend, walk, handler>>

\* one call of one of the three functions, in a process whose environment
\* may change under it
InitCredentials ==
  \/ InitUpload /\ Len(backend.fields) <= 1
  \/ InitWalkDefault

NextCredentials == NextCalls \/ EnvChanges
SpecCredentials == InitCredentials /\ [][NextCredentials]_vars


\* ----------------------------------------- attach calls on the same row
\* what the file fields of the row hold before the call
InitialCells == {<<>>, <<[name |-> "old1.jpg", url |-> "/media/old1.jpg"],
                         [name |-> "old2.jpg", url |-> "/media/old2.jpg"]>>}

AttachArgs ==
  [url : {Url}, filePath : {"/tmp/file.jpg"}, fileExists : {TRUE},
   filename : {Absent}, tableId : {"12"}, rowId : {"34"},
   fieldName : {Num(1), Str(<<"2">>), Str(Prefix \o <<"2">>), Str(<<"e">>)}]

\* the field lists of the table of the row, and the fields that the other
\* calls resolve
AttachFieldLists ==
  {<<>>, <<[id |-> 1, name |-> <<"e">>]>>, <<[id |-> 2, name |-> <<"e">>]>>}
OtherFieldIds == {1, 2}

\* Another call of uploadImageUrl or uploadFile, running at the same time
\* on the same row: the backend applies its PATCH, for a file of its own
\* and the field it resolved.
OtherCallPatchApplied ==
  /\ Len(backend.row.applied) < MaxPatches
  /\ \E fid \in OtherFieldIds, file \in Files :
       backend' = ApplyPatch(backend, UpdatePayload(Num(fid), file))
  /\ UNCHANGED <<handler, tool, env, args, pc, requests, uploadResult, fieldId,
                 outcome, responses, walk, credentials>>

\* one attach call, with the other calls that write the same row
InitAttach ==
  /\ tool \in UploadTools
  /\ env = [url |-> TRUE, token |-> TRUE]
  /\ args \in AttachArgs
  /\ pc = "start"
  /\ requests = <<>>
  /\ responses = <<>>
  /\ uploadResult = NoFile
  /\ fieldId = Undefined
  /\ outcome = Pending
  /\ backend \in [fields : AttachFieldLists, workspaces : {<<>>},
                  row : [initial : InitialCells, applied : {<<>>}]]
  /\ walk = WalkIdle
  /\ handler = NoHandler
  /\ credentials = NoCredentials

NextAttach == NextUpload \/ OtherCallPatchApplied

\* field lists before and after a field is renamed or deleted, or another
\* field takes its name
StaleFieldLists ==
  {<<>>, <<[id |-> 1, name |-> <<"e">>]>>, <<[id |-> 1, name |-> <<"E">>]>>,
   <<[id |-> 2, name |-> <<"e">>]>>,
   <<[id |-> 1, name |-> <<"E">>], [id |-> 2, name |-> <<"e">>]>>}

StaleArgs ==
  [url : {Url}, filePath : {"/tmp/file.jpg"}, fileExists : {TRUE},
   filename : {Absent}, tableId : {"12"}, rowId : {"34"},
   fieldName : {Str(<<"e">>), Str(<<"E">>), Str(Prefix \o <<"2">>)}]

\* Someone changes the fields of the table while the call is under way.
FieldListChanges ==
  /\ pc \notin {"start", "done"}
  /\ \E l \in StaleFieldLists \ {backend.fields} :
       backend' = [backend EXCEPT !.fields = l]
  /\ UNCHANGED <<handler, tool, env, args, pc, requests, uploadResult, fieldId,
                 outcome, responses, walk, credentials>>

\* one attach call on a table whose fields change under it
InitStale ==
  /\ tool \in UploadTools
  /\ env = [url |-> TRUE, token |-> TRUE]
  /\ args \in StaleArgs
  /\ pc = "start"
  /\ requests = <<>>
  /\ responses = <<>>
  /\ uploadResult = NoFile
  /\ fieldId = Undefined
  /\ outcome = Pending
  /\ backend \in [fields : StaleFieldLists, workspaces : {<<>>},
                  row : {NoPatches}]
  /\ walk = WalkIdle
  /\ handler = NoHandler
  /\ credentials = NoCredentials

NextStale == NextUpload \/ FieldListChanges

SpecStale == InitStale /\ [][NextStale]_vars

SpecAttach == InitAttach /\ [][NextAttach]_vars


\* ------------------------------------------------ CallToolRequest handler
UploadToolNames == {"upload_image_url", "upload_file"}
ToolNames == UploadToolNames \cup {"read_baserow_structure"}

\* the function a tool name is dispatched to
FunctionOf(name) ==
  CASE name = "upload_image_url" -> "uploadImageUrl"
    [] name = "upload_file" -> "uploadFile"
    [] OTHER -> "readBaserowStructure"

\* the truthiness of an optional string: left out and "" are both falsy
TruthyText(v) == v.given /\ v.text # ""

\* the validation that only asks for a tableId beside a rowId
TripleInvalidRowOnly(h, a) == TruthyText(h.rowId) /\ ~TruthyText(h.tableId)

\* (tableId || rowId || fieldName) && !(tableId && rowId && fieldName)
TripleInvalid(h, a) ==
  /\ TruthyText(h.tableId) \/ TruthyText(h.rowId) \/ Truthy(a.fieldName)
  /\ ~(TruthyText(h.tableId) /\ TruthyText(h.rowId) /\ Truthy(a.fieldName))

ValidationMsg ==
  <<"If providing table update parameters, tableId, rowId, and fieldName are all required">>
ParseMsg == <<"Invalid arguments: ", "ZodError">>

\* an error the handler throws, which the server answers as a protocol error
HandlerThrows(msg) == [kind |-> "thrown", isError |-> FALSE, text |-> msg]

\* the reply to a failed call without the error flag
RenderErrorUnflagged(msg) ==
  [kind |-> "result", isError |-> FALSE, text |-> <<"Error: ">> \o msg]

\* catch (error): the text is the cross mark, "Error: " and the message
RenderError(msg) ==
  [kind |-> "result", isError |-> TRUE, text |-> <<"Error: ">> \o msg]

\* The success message of the upload tools: the check mark and source, the
\* file lines, the updated-row line, the warning line.
RenderUpload(h, a, result) ==
  [kind |-> "result", isError |-> FALSE,
   text |->
     (IF h.name = "upload_file"
      THEN <<"Successfully uploaded file from ", a.filePath>>
      ELSE <<"Successfully uploaded image from ", a.url>>)
     \o (IF "uploaded_file" \in result.keys
         THEN <<"\nFile ID: ", result.uploaded_file.name,
                "\nFile URL: ", result.uploaded_file.url>>
         ELSE <<>>)
     \o (IF "updated_row" \in result.keys
         THEN <<"\nUpdated row ", h.rowId.text, " in table ", h.tableId.text>>
         ELSE <<>>)
     \o (IF "row_update_error" \in result.keys
         THEN <<"\nWarning: ">> \o result.row_update_error
         ELSE <<>>)]

\* the report lines of the tables of an application
RECURSIVE TableLines(_, _)
TableLines(tables, includeRows) ==
  IF tables = <<>> THEN <<>>
  ELSE <<"Table: ", tables[1].name, ToString(tables[1].id),
         "Row Count: ",
         IF tables[1].rowCount = 0 THEN "Unknown"
         ELSE ToString(tables[1].rowCount),
         "Fields: ", ToString(Len(tables[1].fields))>>
       \o (IF includeRows /\ Len(tables[1].sampleRows) > 0
           THEN <<"Sample Rows (showing ",
                  ToString(Len(tables[1].sampleRows)), ")", "rows listed: ",
                  ToString(Min(3, Len(tables[1].sampleRows)))>>
           ELSE <<>>)
       \o TableLines(Tail(tables), includeRows)

RECURSIVE ApplicationLines(_, _)
ApplicationLines(apps, includeRows) ==
  IF apps = <<>> THEN <<>>
  ELSE <<"Application: ", apps[1].name, ToString(apps[1].id), apps[1].type>>
       \o TableLines(apps[1].tables, includeRows)
       \o ApplicationLines(Tail(apps), includeRows)

RECURSIVE WorkspaceLines(_, _)
WorkspaceLines(workspaces, includeRows) ==
  IF workspaces = <<>> THEN <<>>
  ELSE <<"Workspace: ", workspaces[1].name, ToString(workspaces[1].id)>>
       \o ApplicationLines(workspaces[1].applications, includeRows)
       \o WorkspaceLines(Tail(workspaces), includeRows)

\* the message of read_baserow_structure: result.message and the report
RenderStructure(a, result) ==
  [kind |-> "result", isError |-> FALSE,
   text |-> result.message \o <<"BASEROW STRUCTURE REPORT">>
              \o WorkspaceLines(result.structure.workspaces, a.includeRows)]

\* the unchanged rest of an action of the handler
HandlerFrame ==
  UNCHANGED <<tool, env, args, requests, uploadResult, fieldId, outcome,
              responses, backend, walk, credentials>>

\* The handler up to the call of the function: the schema's parse, then for
\* the upload tools the validation of the triple.
ToolDispatch ==
  /\ pc = "handler"
  /\ handler.phase = "received"
  /\ IF ~handler.valid
     THEN /\ handler' = [handler EXCEPT !.phase = "replied",
                                        !.reply = HandlerThrows(ParseMsg)]
          /\ UNCHANGED pc
     ELSE IF handler.name \in UploadToolNames /\ TripleInvalid(handler, args)
     THEN /\ handler' = [handler EXCEPT !.phase = "replied",
                                        !.reply = HandlerThrows(ValidationMsg)]
          /\ UNCHANGED pc
     ELSE /\ handler' = [handler EXCEPT !.phase = "called"]
          /\ pc' = "start"
  /\ HandlerFrame

\* The handler once the function has returned or thrown.
ToolRender ==
  /\ pc = "done"
  /\ handler.phase = "called"
  /\ handler' =
       [handler EXCEPT
          !.phase = "replied",
          !.reply =
             IF outcome.kind = "thrown" THEN RenderError(outcome.error)
             ELSE IF handler.name \in UploadToolNames
             THEN RenderUpload(handler, args, outcome.result)
             ELSE RenderStructure(args, outcome.result)]
  /\ UNCHANGED pc
  /\ HandlerFrame

\* the field references a tool request can carry: a string, or none
ToolRefs ==
  {Undefined, Str(<<>>), Str(<<"e">>), Str(<<"1">>), Str(Prefix \o <<"0">>)}
ToolIds == {NotGiven, Given(""), Given("12")}
\* the environment a request is handled in: main() has checked it at the
\* start, the token may have gone since
ToolEnvs == {e \in Envs : e.url}

\* a request for one of the upload tools
InitUploadTool ==
  /\ handler \in [name : UploadToolNames, tableId : ToolIds, rowId : ToolIds,
                  valid : BOOLEAN, phase : {"received"}, reply : {NoReply}]
  /\ args \in [url : {Url}, filePath : {"/tmp/file.jpg"}, fileExists : BOOLEAN,
               filename : {Absent}, tableId : {handler.tableId.text},
               rowId : {handler.rowId.text}, fieldName : ToolRefs]
  /\ backend \in [fields : FieldLists, workspaces : {<<>>}, row : {NoPatches}]

\* a request for read_baserow_structure
InitStructureTool ==
  /\ handler \in [name : {"read_baserow_structure"}, tableId : {NotGiven},
                  rowId : {NotGiven}, valid : BOOLEAN, phase : {"received"},
                  reply : {NoReply}]
  /\ args \in WalkArgs
  /\ backend \in [fields : {<<>>}, workspaces : Hierarchies, row : {NoPatches}]

InitTool ==
  /\ InitUploadTool \/ InitStructureTool
  /\ tool = FunctionOf(handler.name)
  /\ env \in ToolEnvs
  /\ pc = "handler"
  /\ requests = <<>>
  /\ responses = <<>>
  /\ uploadResult = NoFile
  /\ fieldId = Undefined
  /\ outcome = Pending
  /\ walk = WalkIdle
  /\ credentials = NoCredentials

NextTool == ToolDispatch \/ NextUpload \/ NextWalk \/ ToolRender

SpecTool == InitTool /\ [][NextTool]_vars


\* ----------------------------------------------------------------- claims
\* the answers to the upload request, to the PATCH, and the call's state
UploadAnswered == tool \in UploadTools /\ Len(responses) >= 1
UploadOk == UploadAnswered /\ responses[1].kind = "ok"
Finished == pc = "done"
LastRequest == requests[Len(requests)]
LastAnswer == responses[Len(responses)]
PatchIssued == \E i \in 1..Len(requests) : requests[i].method = "PATCH"
PatchAnswered ==
  /\ UploadOk
  /\ Len(requests) >= 2
  /\ Len(responses) = Len(requests)
  /\ LastRequest.method = "PATCH"
FieldsAsked == \E i \in 1..Len(requests) : requests[i].method = "GET"
Contains(msg, piece) == \E i \in 1..Len(msg) : msg[i] = piece
Keys == outcome.result.keys

\* C1: every result an upload call returns has success = true and the body
\* of the upload response as uploaded_file, and never holds both updated_row
\* and row_update_error.
C1_ResultShape ==
  (tool \in UploadTools /\ outcome.kind = "returned") =>
    /\ {"success", "uploaded_file"} \subseteq Keys
    /\ outcome.result.success = TRUE
    /\ UploadOk
    /\ outcome.result.uploaded_file = responses[1].file
    /\ ~({"updated_row", "row_update_error"} \subseteq Keys)

C1_Witness ==
  /\ tool = "uploadFile"
  /\ outcome.kind = "returned"
  /\ "row_update_error" \in Keys
  /\ PatchAnswered

\* C2: once the upload request has succeeded the call never fails: whatever
\* goes wrong in the attach phase, the finished call has returned a result
\* that carries the uploaded-file descriptor.
C2_NeverFailsAfterUpload ==
  (UploadOk /\ Finished) =>
    /\ outcome.kind = "returned"
    /\ outcome.result.uploaded_file = responses[1].file

\* C3: a failed upload (non-success status, transport failure, unparseable
\* body) fails the call with an error whose message chains the cause (the
\* status code and the body text for a non-success status); no result is
\* returned and neither a field-list request nor a PATCH is issued.
C3_UploadFailureIsFatal ==
  (UploadAnswered /\ responses[1].kind # "ok") =>
    /\ Finished
    /\ outcome.kind = "thrown"
    /\ outcome.result = NoResult
    /\ SubSeq(outcome.error, 1, 1) = CatchPrefix(tool)
    /\ responses[1].kind = "status" =>
         /\ Contains(outcome.error, responses[1].status)
         /\ Contains(outcome.error, ErrorText)
    /\ responses[1].kind = "reject" =>
         Drop(outcome.error, 1) = NetworkMsg
    /\ responses[1].kind = "badjson" => Drop(outcome.error, 1) = JsonMsg
    /\ responses[1].kind = "aborted" => Drop(outcome.error, 1) = BodyMsg
    /\ Len(requests) = 1
    /\ requests[1].method = "POST"

C3_Witness ==
  /\ UploadAnswered
  /\ responses[1].kind = "status"
  /\ AttachRequested(args)
  /\ outcome.kind = "thrown"

\* C4: upload succeeded, the attach triple was given, the reference was
\* resolved and the PATCH answered with success: the call returns exactly
\* {success: true, uploaded_file: <upload body>, updated_row: <PATCH body>}.
C4_AttachSuccess ==
  (PatchAnswered /\ AttachRequested(args) /\ LastAnswer.kind = "ok") =>
    /\ Finished
    /\ outcome.kind = "returned"
    /\ Keys = {"success", "uploaded_file", "updated_row"}
    /\ outcome.result.success = TRUE
    /\ outcome.result.uploaded_file = responses[1].file
    /\ outcome.result.updated_row = LastAnswer.row

C4_Witness ==
  /\ PatchAnswered
  /\ LastAnswer.kind = "ok"
  /\ Len(requests) = 3
  /\ outcome.kind = "returned"
  /\ "updated_row" \in Keys

\* C5: upload succeeded, the reference was resolved and the PATCH answered
\* with a non-success status S and status text T: the call does not throw
\* and returns exactly {success: true, uploaded_file: <upload body>,
\* row_update_error: "Failed to update row: S T"}, without updated_row.
C5_AttachFailureIsPartialSuccess ==
  (PatchAnswered /\ LastAnswer.kind = "status") =>
    /\ Finished
    /\ outcome.kind = "returned"
    /\ Keys = {"success", "uploaded_file", "row_update_error"}
    /\ outcome.result.success = TRUE
    /\ outcome.result.uploaded_file = responses[1].file
    /\ outcome.result.row_update_error =
         <<"Failed to update row: ", LastAnswer.status, " ",
           StatusText(LastAnswer.status)>>

C5_Witness ==
  /\ PatchAnswered
  /\ LastAnswer.kind = "status"
  /\ LastAnswer.status = "404"
  /\ outcome.kind = "returned"
  /\ outcome.result.row_update_error =
       <<"Failed to update row: ", "404", " ", "Not Found">>


\* the three forms of a field reference
EntirelyNumeric(ref) == ref.t = "num" \/ (ref.t = "str" /\ IsDigits(ref.s))
PrefixedId(ref) ==
  /\ ref.t = "str"
  /\ StartsWith(ref.s, Prefix)
  /\ IsDigits(Drop(ref.s, Len(Prefix)))
IsNameRef(ref) == ref.t = "str" /\ ~EntirelyNumeric(ref) /\ ~PrefixedId(ref)

NameAbsent(name) ==
  \A i \in 1..Len(backend.fields) : backend.fields[i].name # name
FieldsFetchFailed ==
  \E i \in 1..Len(responses) :
    requests[i].method = "GET" /\ responses[i].kind # "ok"

\* C6: upload succeeded and the reference is a name that the table's field
\* list does not hold (or the field-list fetch failed): the call returns
\* {success: true, uploaded_file, row_update_error: "Failed to resolve
\* field ..."} naming the reference and the table, and issues no PATCH.
C6_UnresolvedNameIsPartialSuccess ==
  (/\ UploadOk
   /\ AttachRequested(args)
   /\ IsNameRef(args.fieldName)
   /\ NameAbsent(args.fieldName.s) \/ FieldsFetchFailed
   /\ pc # "await_fields") =>
    /\ ~PatchIssued
    /\ Finished
    /\ outcome.kind = "returned"
    /\ Keys = {"success", "uploaded_file", "row_update_error"}
    /\ outcome.result.uploaded_file = responses[1].file
    /\ outcome.result.row_update_error =
         <<"Failed to resolve field \"">> \o args.fieldName.s
           \o <<"\" in table ", args.tableId>>

\* n is the number the digit string s denotes
Denotes(s, n) ==
  \E k \in 0..(Len(s) - 1) :
    /\ \A i \in 1..k : s[i] = "0"
    /\ Drop(s, k) = NatToStr(n)

\* C7: for a reference that is a purely numeric string or a number,
\* getFieldId returns that number and issues no request.
C7_NumericReference ==
  (tool = "getFieldId" /\ Finished /\ EntirelyNumeric(args.fieldName)) =>
    /\ requests = <<>>
    /\ fieldId.t = "num"
    /\ fieldId.n >= 0
    /\ IF args.fieldName.t = "num"
       THEN fieldId.n = args.fieldName.n
       ELSE Denotes(args.fieldName.s, fieldId.n)

C7_Witness ==
  /\ tool = "getFieldId"
  /\ Finished
  /\ args.fieldName = Str(<<"1", "0">>)
  /\ fieldId = Num(10)
  /\ requests = <<>>

\* C8: for a reference of the form field_<digits>, getFieldId returns
\* <digits> parsed as a number and issues no request.
C8_PrefixedReference ==
  (tool = "getFieldId" /\ Finished /\ PrefixedId(args.fieldName)) =>
    /\ requests = <<>>
    /\ fieldId.t = "num"
    /\ fieldId.n >= 0
    /\ Denotes(Drop(args.fieldName.s, Len(Prefix)), fieldId.n)

C8_Witness ==
  /\ tool = "getFieldId"
  /\ Finished
  /\ args.fieldName = Str(Prefix \o <<"1", "1">>)
  /\ fieldId = Num(11)
  /\ requests = <<>>

\* C9: for a reference that is neither entirely numeric nor of the form
\* field_<digits>, getFieldId issues exactly one field-list request for
\* the table and returns the id of the first field of the list, in the
\* backend's order, whose name equals the reference exactly.
C9_NameReference ==
  (tool = "getFieldId" /\ Finished /\ IsNameRef(args.fieldName)) =>
    /\ requests = <<FieldsRequest(args.tableId)>>
    /\ \A i \in 1..Len(backend.fields) :
         (/\ responses[1].kind = "ok"
          /\ backend.fields[i].name = args.fieldName.s
          /\ \A j \in 1..(i - 1) : backend.fields[j].name # args.fieldName.s)
         => fieldId = Num(backend.fields[i].id)


\* What the walker is to build for a table, a database and a workspace when
\* every fetch below it succeeds.
ExpectedTable(t) ==
  [id |-> t.id, name |-> t.name, order |-> t.order,
   fields |-> MapFields(ServeFields(backend, t.id)),
   rowCount |-> IF args.includeRows
                THEN ServeRows(backend, t.id, args.maxRows).count ELSE 0,
   sampleRows |-> IF args.includeRows
                  THEN ServeRows(backend, t.id, args.maxRows).results
                  ELSE <<>>]

ExpectedApplication(a) ==
  [id |-> a.id, name |-> a.name, type |-> a.type,
   tables |-> [k \in 1..Len(ServeTables(backend, a.id)) |->
                 ExpectedTable(ServeTables(backend, a.id)[k])]]

IsDatabase(a) == a.type = "database"

ExpectedWorkspace(w) ==
  LET dbs == SelectSeq(ServeApplications(backend, w.id), IsDatabase)
  IN  [id |-> w.id, name |-> w.name,
       applications |-> [j \in 1..Len(dbs) |-> ExpectedApplication(dbs[j])]]

ApplicationsPath(wsId) ==
  <<"/api/applications/workspace/", ToString(wsId), "/">>

\* the i-th request is the only one that failed, and it is the
\* applications request of workspace wsId
OnlyApplicationsFailed(i, wsId) ==
  /\ i <= Len(responses)
  /\ requests[i].path = ApplicationsPath(wsId)
  /\ responses[i].kind # "ok"
  /\ \A j \in 1..Len(responses) : j # i => responses[j].kind = "ok"

\* C10: when the applications fetch of one workspace fails, the call still
\* succeeds, that workspace is in the output with no applications, and every
\* other workspace is in the output as if nothing had failed.
C10_ApplicationsFailureAbsorbed ==
  \A i \in 1..Len(requests), wsId \in 1..Len(backend.workspaces) :
    (/\ tool = "readBaserowStructure"
     /\ OnlyApplicationsFailed(i, wsId)
     /\ Finished) =>
      /\ outcome.kind = "returned"
      /\ outcome.result.success = TRUE
      /\ outcome.result.structure.workspaces =
           [v \in 1..Len(backend.workspaces) |->
              IF v = wsId
              THEN [id |-> v, name |-> "Workspace", applications |-> <<>>]
              ELSE ExpectedWorkspace(ServeWorkspaces(backend)[v])]


\* ids of the backend's workspaces, applications and tables
WsIds == 1..Len(backend.workspaces)
AppIds ==
  UNION {{10 * w + j : j \in 1..Len(backend.workspaces[w].apps)} : w \in WsIds}
DatabaseIds == {a \in AppIds : BackendApp(backend, a).type = "database"}
TableIds ==
  UNION {{10 * a + k : k \in 1..Len(BackendApp(backend, a).tables)} :
           a \in DatabaseIds}

TablesPath(appId) == <<"/api/database/tables/database/", ToString(appId), "/">>
FieldsPath(tableId) == <<"/api/database/fields/table/", ToString(tableId), "/">>
RowsPath(tableId, size) ==
  <<"/api/database/rows/table/", ToString(tableId), "/?size=", ToString(size)>>

WalkTool == tool = "readBaserowStructure"
Answered(i) == i <= Len(responses)
\* the i-th request was answered, and not with a parsed success body
Failed(i) == Answered(i) /\ responses[i].kind # "ok"
Succeeded(i) == Answered(i) /\ responses[i].kind = "ok"
IsTablesRequest(i) == \E a \in AppIds : requests[i].path = TablesPath(a)
IsFieldsRequest(i) == \E t \in TableIds : requests[i].path = FieldsPath(t)
IsRowsRequest(i) == requests[i].path[1] = "/api/database/rows/table/"
IsApplicationsRequest(i) ==
  \E w \in WsIds : requests[i].path = ApplicationsPath(w)

Range(seq) == {seq[i] : i \in 1..Len(seq)}
OutWorkspaces == outcome.result.structure.workspaces
OutSummary == outcome.result.structure.summary
\* the applications and the tables that the returned structure nests
OutApps == UNION {Range(w.applications) : w \in Range(OutWorkspaces)}
OutTables == UNION {Range(a.tables) : a \in OutApps}
Ids(seq) == [i \in 1..Len(seq) |-> seq[i].id]

RECURSIVE SumFn(_, _)
SumFn(f, S) ==
  IF S = {} THEN 0
  ELSE LET x == CHOOSE y \in S : TRUE IN f[x] + SumFn(f, S \ {x})

\* the sum of the item counts of the successful tables answers
TablesReturned ==
  SumFn([i \in 1..Len(responses) |->
           IF Succeeded(i) /\ IsTablesRequest(i)
           THEN Len(ServeTables(backend,
                  CHOOSE a \in AppIds : requests[i].path = TablesPath(a)))
           ELSE 0],
        1..Len(responses))

\* the sum of the item counts of the successful fields answers
FieldsReturned ==
  SumFn([i \in 1..Len(responses) |->
           IF Succeeded(i) /\ IsFieldsRequest(i)
           THEN Len(ServeFields(backend,
                  CHOOSE t \in TableIds : requests[i].path = FieldsPath(t)))
           ELSE 0],
        1..Len(responses))

\* every failed fetch of the call is a tables or a fields fetch, and there
\* is one
OnlyTablesOrFieldsFailed ==
  /\ \E i \in 1..Len(responses) : Failed(i)
  /\ \A i \in 1..Len(responses) :
       Failed(i) => IsTablesRequest(i) \/ IsFieldsRequest(i)

\* the structure a returned call nests: under every workspace whose
\* applications were fetched all its databases, under every database whose
\* tables were fetched all its tables
SiblingsComplete ==
  /\ Ids(OutWorkspaces) = Ids(ServeWorkspaces(backend))
  /\ \A i \in 1..Len(responses), w \in WsIds :
       (Succeeded(i) /\ requests[i].path = ApplicationsPath(w)) =>
         Ids(OutWorkspaces[w].applications) =
           Ids(SelectSeq(ServeApplications(backend, w), IsDatabase))
  /\ \A i \in 1..Len(responses), a \in AppIds :
       (Succeeded(i) /\ requests[i].path = TablesPath(a)) =>
         \E x \in OutApps : x.id = a /\ Ids(x.tables) = Ids(ServeTables(backend, a))

\* C11: when the tables fetch of a database or the fields fetch of a table
\* fails, the call returns; the database is in the output with no tables,
\* the table is in the output with no fields; the summary counts only what
\* the successful fetches returned; and every sibling is still walked.
C11_TablesFieldsFailureAbsorbed ==
  (WalkTool /\ Finished /\ OnlyTablesOrFieldsFailed) =>
    /\ outcome.kind = "returned"
    /\ \A i \in 1..Len(responses), a \in AppIds :
         (Failed(i) /\ requests[i].path = TablesPath(a)) =>
           \E x \in OutApps : x.id = a /\ x.tables = <<>>
    /\ \A i \in 1..Len(responses), t \in TableIds :
         (Failed(i) /\ requests[i].path = FieldsPath(t)) =>
           \E x \in OutTables : x.id = t /\ x.fields = <<>>
    /\ OutSummary.totalTables = TablesReturned
    /\ OutSummary.totalFields = FieldsReturned
    /\ SiblingsComplete


\* the message of the failure that the answer to the workspaces request is
RootCause(resp) ==
  CASE resp.kind = "status" ->
         <<"Failed to fetch workspaces: ", resp.status, " ",
           StatusText(resp.status)>>
    [] resp.kind = "reject" -> <<"Network error">>
    [] OTHER -> <<"Invalid JSON">>

\* C12: when the workspaces fetch fails, by a non-success status or by a
\* transport failure, the call throws an error that wraps the cause, returns
\* no structure, and issues no request after the workspaces request.
C12_RootFailureIsFatal ==
  (WalkTool /\ Failed(1)) =>
    /\ Finished
    /\ outcome.kind = "thrown"
    /\ outcome.result = NoResult
    /\ outcome.error =
         <<"Failed to read Baserow structure: ">> \o RootCause(responses[1])
    /\ Len(requests) = 1
    /\ requests[1].path = <<"/api/workspaces/">>

C12_Witness ==
  /\ WalkTool
  /\ Failed(1)
  /\ responses[1].kind = "reject"
  /\ Len(backend.workspaces) > 0
  /\ outcome.kind = "thrown"

\* every answer of the call is a success, a non-success status or a
\* transport failure
StatusOrTransport ==
  \A i \in 1..Len(responses) : responses[i].kind \in {"ok", "status", "reject"}

\* C13: once the workspaces fetch has succeeded, no failure of a later
\* fetch, by status or by transport, makes the call fail: a finished call
\* has returned a structure.
C13_NonRootFailuresAbsorbed ==
  (WalkTool /\ Succeeded(1) /\ StatusOrTransport /\ Finished) =>
    /\ outcome.kind = "returned"
    /\ outcome.result.success = TRUE
    /\ Ids(OutWorkspaces) = Ids(ServeWorkspaces(backend))

\* the sum of the item counts of the successful applications answers
ApplicationsReturned ==
  SumFn([i \in 1..Len(responses) |->
           IF Succeeded(i) /\ IsApplicationsRequest(i)
           THEN Len(ServeApplications(backend,
                  CHOOSE w \in WsIds : requests[i].path = ApplicationsPath(w)))
           ELSE 0],
        1..Len(responses))

WalkReturned == WalkTool /\ outcome.kind = "returned"

\* C14: every application nested in a returned structure has the type
\* "database" and is a database of the backend; an application of another
\* type is nested nowhere, and is still counted in totalApplications.
C14_OnlyDatabasesNested ==
  WalkReturned =>
    /\ \A x \in OutApps :
         x.type = "database" /\ x.id \in DatabaseIds
    /\ \A a \in AppIds \ DatabaseIds : \A x \in OutApps : x.id # a
    /\ OutSummary.totalApplications = ApplicationsReturned

\* a returned structure whose backend has an application of another type
\* beside a database, both returned by a successful applications fetch
C14_Witness ==
  /\ WalkReturned
  /\ \A i \in 1..Len(responses) : Succeeded(i)
  /\ AppIds \ DatabaseIds # {}
  /\ OutApps # {}
  /\ OutSummary.totalApplications > Cardinality(OutApps)

\* C15: in a returned structure totalWorkspaces is the number of workspaces
\* the root fetch returned, and totalApplications, totalTables, totalFields
\* are the sums of the item counts of the successful fetches of that level.
C15_SummaryCounts ==
  WalkReturned =>
    /\ OutSummary.totalWorkspaces = Len(ServeWorkspaces(backend))
    /\ OutSummary.totalApplications = ApplicationsReturned
    /\ OutSummary.totalTables = TablesReturned
    /\ OutSummary.totalFields = FieldsReturned
    /\ outcome.result.message =
         <<"Found ", ToString(Len(ServeWorkspaces(backend))), " workspaces, ",
           ToString(ApplicationsReturned), " applications, ",
           ToString(TablesReturned), " tables, and ",
           ToString(FieldsReturned), " fields">>

\* one workspace, one database, one table with two fields, read without
\* rows: the summary is {1, 1, 1, 2}
C15_Witness ==
  /\ WalkReturned
  /\ ~args.includeRows
  /\ args.maxRows = 0
  /\ \A i \in 1..Len(responses) : Succeeded(i)
  /\ Len(backend.workspaces) = 1
  /\ OutSummary =
       [totalWorkspaces |-> 1, totalApplications |-> 1, totalTables |-> 1,
        totalFields |-> 2]
  /\ \A t \in OutTables : t.rowCount = 0 /\ t.sampleRows = <<>>


\* the i-th request asks for the rows of table t
IsRowsRequestOf(i, t) ==
  /\ Len(requests[i].path) = 4
  /\ requests[i].path[1] = "/api/database/rows/table/"
  /\ requests[i].path[2] = ToString(t)

\* C16: a call with includeRows = false issues no rows request, and every
\* table of the structure it returns has rowCount 0 and no sample rows,
\* whatever maxRows is.
C16_NoRowsUnlessRequested ==
  (WalkTool /\ ~args.includeRows) =>
    /\ \A i \in 1..Len(requests) : ~IsRowsRequest(i)
    /\ (outcome.kind = "returned" =>
          \A t \in OutTables : t.rowCount = 0 /\ t.sampleRows = <<>>)

\* a structure returned without rows for a table that has rows, with a
\* non-zero maxRows
C16_Witness ==
  /\ WalkReturned
  /\ ~args.includeRows
  /\ args.maxRows > 0
  /\ \E t \in OutTables : BackendTable(backend, t.id).rows > 0

\* C17: with includeRows = true, a table whose rows fetch succeeded has the
\* backend's total as rowCount and, as sampleRows, the one page the backend
\* returned to the request with size = maxRows: at most maxRows rows.
C17_RowCountAndSample ==
  (WalkReturned /\ args.includeRows) =>
    \A i \in 1..Len(responses), t \in TableIds :
      (Succeeded(i) /\ IsRowsRequestOf(i, t)) =>
        /\ requests[i].path = RowsPath(t, args.maxRows)
        /\ \A j \in 1..Len(requests) : IsRowsRequestOf(j, t) => j = i
        /\ \E x \in OutTables :
             /\ x.id = t
             /\ x.rowCount = BackendTable(backend, t).rows
             /\ x.sampleRows = ServeRows(backend, t, args.maxRows).results
             /\ Len(x.sampleRows) <= args.maxRows

\* a table whose total exceeds the sample: 3 rows in the backend, a page of
\* one
C17_Witness ==
  /\ WalkReturned
  /\ args.includeRows
  /\ args.maxRows = 1
  /\ \E x \in OutTables : x.rowCount = 3 /\ Len(x.sampleRows) = 1

\* every failed fetch of the call is a rows fetch, and there is one
OnlyRowsFailed ==
  /\ \E i \in 1..Len(responses) : Failed(i)
  /\ \A i \in 1..Len(responses) : Failed(i) => IsRowsRequest(i)

\* C18: with includeRows = true, when the rows fetch of a table fails the
\* call still returns, and the table is in the output with the fields that
\* were fetched for it, rowCount 0 and no sample rows.
C18_RowsFailureAbsorbed ==
  (WalkTool /\ args.includeRows /\ Finished /\ OnlyRowsFailed) =>
    /\ outcome.kind = "returned"
    /\ outcome.result.success = TRUE
    /\ \A i \in 1..Len(responses), t \in TableIds :
         (Failed(i) /\ IsRowsRequestOf(i, t)) =>
           \E x \in OutTables :
             /\ x.id = t
             /\ x.fields = MapFields(ServeFields(backend, t))
             /\ x.rowCount = 0
             /\ x.sampleRows = <<>>


EnvComplete == env.url /\ env.token

\* C19: uploadFile called, in a configured environment, with a path that
\* does not exist throws an error whose message names the missing path, and
\* issues no request at any point of the call.
C19_MissingFile ==
  (tool = "uploadFile" /\ EnvComplete /\ ~args.fileExists) =>
    /\ requests = <<>>
    /\ pc \in {"start", "done"}
    /\ (Finished =>
          /\ outcome.kind = "thrown"
          /\ Contains(outcome.error, args.filePath)
          /\ outcome.error =
               <<"File upload failed: ", "File not found: ", args.filePath>>)

C19_Witness ==
  /\ tool = "uploadFile"
  /\ EnvComplete
  /\ ~args.fileExists
  /\ outcome.kind = "thrown"

\* C20: uploadImageUrl, uploadFile and readBaserowStructure called while the
\* base URL or the token is missing throw the configuration error and issue
\* no request; uploadFile does so whether or not the file exists.
C20_MissingEnvironment ==
  (/\ tool \in {"uploadImageUrl", "uploadFile", "readBaserowStructure"}
   /\ ~EnvComplete) =>
    /\ requests = <<>>
    /\ pc \in {"start", "done"}
    /\ (Finished =>
          /\ outcome.kind = "thrown"
          /\ outcome.error =
               <<"BASEROW_API_URL and BASEROW_API_TOKEN environment variables are required">>)

\* uploadFile with the token alone missing and a file that does not exist
C20_Witness ==
  /\ tool = "uploadFile"
  /\ env.url
  /\ ~env.token
  /\ ~args.fileExists
  /\ outcome.kind = "thrown"


\* an optional argument of a tool request is absent when it is left out or
\* is the empty string
AbsentId(v) == ~v.given \/ v.text = ""
AbsentRef(ref) == ref = Undefined \/ ref = Str(<<>>)
TripleAbsent ==
  AbsentId(handler.tableId) /\ AbsentId(handler.rowId) /\ AbsentRef(args.fieldName)
TriplePresent ==
  ~AbsentId(handler.tableId) /\ ~AbsentId(handler.rowId)
    /\ ~AbsentRef(args.fieldName)
UploadToolRequest == handler.name \in UploadToolNames /\ handler.valid
Replied == handler.phase = "replied"

\* C21: an upload tool request whose tableId, rowId and fieldName are neither
\* all absent nor all present is rejected by the handler and no request is
\* ever issued for it; a request with all three absent or all three present
\* passes the validation and reaches the upload function.
C21_TripleValidation ==
  UploadToolRequest =>
    IF ~TripleAbsent /\ ~TriplePresent
    THEN /\ requests = <<>>
         /\ handler.phase \in {"received", "replied"}
         /\ pc = "handler"
         /\ (Replied =>
               /\ handler.reply.kind = "thrown"
               /\ handler.reply.text =
                    <<"If providing table update parameters, tableId, rowId, and fieldName are all required">>)
    ELSE /\ (handler.phase # "received" => pc # "handler")
         /\ (Replied => handler.reply.kind = "result")

\* a request with only a tableId has been rejected
C21_Witness ==
  /\ UploadToolRequest
  /\ handler.tableId = Given("12")
  /\ handler.rowId = NotGiven
  /\ args.fieldName = Undefined
  /\ Replied
  /\ handler.reply.kind = "thrown"


UploadToolCall == tool \in UploadTools
\* how many of the requests issued so far have that method
CountOf(method) ==
  Cardinality({i \in 1..Len(requests) : requests[i].method = method})

\* C22: one call of uploadImageUrl or uploadFile issues at most one upload
\* POST, at most one field-list GET and at most one row PATCH, one request
\* at a time, and never issues again a request that has failed.
C22_EachOperationAtMostOnce ==
  UploadToolCall =>
    /\ CountOf("POST") <= 1
    /\ CountOf("GET") <= 1
    /\ CountOf("PATCH") <= 1
    /\ Len(requests) = CountOf("POST") + CountOf("GET") + CountOf("PATCH")
    /\ Len(requests) <= Len(responses) + 1
    /\ \A i \in 1..Len(responses) :
         responses[i].kind # "ok" =>
           \A j \in (i + 1)..Len(requests) :
             requests[j].method # requests[i].method

\* a call that issued all three requests and whose PATCH failed
C22_Witness ==
  /\ UploadToolCall
  /\ Finished
  /\ Len(requests) = 3
  /\ responses[2].kind = "ok"
  /\ responses[3].kind = "status"


\* a field reference is supplied unless it is left out or is the empty
\* string; the three arguments of the attach phase are all supplied
RefSupplied(ref) == ref # Undefined /\ ref # Str(<<>>)
AllSupplied ==
  args.tableId # Absent /\ args.rowId # Absent /\ RefSupplied(args.fieldName)
\* the attach phase was entered: a field list was asked for, a PATCH was
\* issued, or the failure to resolve the field was reported
AttachEntered ==
  \/ \E i \in 1..Len(requests) : requests[i].method \in {"GET", "PATCH"}
  \/ (outcome.kind = "returned" /\ "row_update_error" \in Keys)

\* C23: a call whose upload succeeded enters the attach phase if and only if
\* tableId, rowId and the field reference are all supplied; otherwise the
\* upload is its only request and it returns {success: true, uploaded_file}
\* with neither updated_row nor row_update_error.
C23_AttachIffAllSupplied ==
  (UploadToolCall /\ UploadOk /\ Finished) =>
    IF AllSupplied
    THEN AttachEntered
    ELSE /\ ~AttachEntered
         /\ Len(requests) = 1
         /\ outcome.kind = "returned"
         /\ outcome.result.success = TRUE
         /\ Keys = {"success", "uploaded_file"}
         /\ outcome.result.uploaded_file = responses[1].file


\* the payloads applied to the row that set the field of that key
AppliedTo(key) ==
  {i \in 1..Len(backend.row.applied) : key \in backend.row.applied[i].keys}
\* the keys that some applied payload has set
AppliedKeys == UNION {p.keys : p \in Range(backend.row.applied)}
OwnKey == Prefix \o ToText(fieldId)

\* C24: every PATCH of the attach phase carries exactly one key,
\* field_<resolved id>, whose value is the one-element sequence of the
\* uploaded-file descriptor; and a field that attaches have written, of
\* this call or of calls running beside it, holds exactly one descriptor:
\* that of the PATCH the backend applied to it last.
C24_AttachReplaces ==
  UploadToolCall =>
    /\ \A i \in 1..Len(requests) :
         requests[i].method = "PATCH" =>
           /\ fieldId.t = "num"
           /\ requests[i].body.keys = {Prefix \o IntToStr(fieldId.n)}
           /\ Cardinality(requests[i].body.keys) = 1
           /\ requests[i].body.value = <<uploadResult>>
           /\ uploadResult = responses[1].file
    /\ \A key \in AppliedKeys :
         /\ Len(CellOf(backend, key)) = 1
         /\ \E i \in AppliedTo(key) :
              /\ \A j \in AppliedTo(key) : j <= i
              /\ CellOf(backend, key) = backend.row.applied[i].value
    /\ (Finished /\ PatchAnswered /\ LastAnswer.kind = "ok") =>
         \E i \in AppliedTo(OwnKey) :
           backend.row.applied[i].value = <<uploadResult>>

\* a field that held two files, written by this call and by another call
\* after it with another file, holds the other call's one file
C24_Witness ==
  /\ UploadToolCall
  /\ Finished
  /\ PatchAnswered
  /\ LastAnswer.kind = "ok"
  /\ Len(backend.row.initial) = 2
  /\ Cardinality(AppliedTo(OwnKey)) >= 2
  /\ backend.row.applied[Len(backend.row.applied)].keys = {OwnKey}
  /\ backend.row.applied[Len(backend.row.applied)].value # <<uploadResult>>
  /\ Len(CellOf(backend, OwnKey)) = 1


\* the handler has answered with a tool result
ResultReplied == Replied /\ handler.reply.kind = "result"
PartialSuccess == outcome.kind = "returned" /\ "row_update_error" \in Keys
\* the text has the warning mark followed by the pieces of that message
HasWarningLine(text, msg) ==
  \E k \in 1..Len(text) :
    /\ text[k] = "\nWarning: "
    /\ k + Len(msg) <= Len(text)
    /\ SubSeq(text, k + 1, k + Len(msg)) = msg

\* C25: the result the handler returns is flagged isError exactly when the
\* function it called has thrown, and then carries the error's message; a
\* partial success is returned unflagged, as the success message with a
\* warning line that carries the row_update_error text.
C25_ErrorFlag ==
  ResultReplied =>
    /\ (handler.reply.isError <=> outcome.kind = "thrown")
    /\ (outcome.kind = "thrown" =>
          handler.reply.text = <<"Error: ">> \o outcome.error)
    /\ ((handler.name \in UploadToolNames /\ PartialSuccess) =>
          /\ ~handler.reply.isError
          /\ handler.reply.text[1] \in
               {"Successfully uploaded image from ",
                "Successfully uploaded file from "}
          /\ Contains(handler.reply.text, outcome.result.uploaded_file.url)
          /\ HasWarningLine(handler.reply.text,
                            outcome.result.row_update_error))

\* a partial success rendered: the PATCH was refused
C25_Witness ==
  /\ ResultReplied
  /\ handler.name \in UploadToolNames
  /\ PartialSuccess
  /\ Len(requests) = 3
  /\ ~handler.reply.isError


FieldsPathOf(a) == <<"/api/database/fields/table/", a.tableId, "/">>
UploadViaUrlPath == <<"/api/user-files/upload-via-url/">>
RowPathOf(a) == <<"/api/database/rows/table/", a.tableId, "/", a.rowId, "/">>
\* the i-th request, when there is one, has that method and path
RequestIs(i, method, path) ==
  i <= Len(requests) =>
    requests[i].method = method /\ requests[i].path = path

\* C26: uploadImageUrl called with tableId, rowId and a field name issues
\* first the GET of the table's field list, second the POST to
\* upload-via-url, third the PATCH of the row.
C26_FieldsThenUploadThenPatch ==
  (/\ tool = "uploadImageUrl"
   /\ args.tableId # Absent
   /\ args.rowId # Absent
   /\ args.fieldName = Str(<<"e">>)) =>
    /\ RequestIs(1, "GET", FieldsPathOf(args))
    /\ RequestIs(2, "POST", UploadViaUrlPath)
    /\ RequestIs(3, "PATCH", RowPathOf(args))


RefHasValue(ref, n) ==
  IF ref.t = "num" THEN ref.n = n
  ELSE IF PrefixedId(ref) THEN Denotes(Drop(ref.s, Len(Prefix)), n)
  ELSE ref.t = "str" /\ IsDigits(ref.s) /\ Denotes(ref.s, n)

ResolutionFailureReported ==
  /\ outcome.kind = "returned"
  /\ "row_update_error" \in Keys
  /\ outcome.result.row_update_error[1] = "Failed to resolve field \""

\* C28: a call with tableId, rowId and a reference that is numeric or
\* field_<digits>, of value n (0 included), whose upload succeeded asks for
\* no field list, issues exactly one PATCH, with the key field_n, and
\* reports no failure to resolve the field.
C28_DirectReferenceIsPatched ==
  \A n \in 0..MaxNum :
    (/\ UploadToolCall
     /\ UploadOk
     /\ Finished
     /\ args.tableId # Absent
     /\ args.rowId # Absent
     /\ RefHasValue(args.fieldName, n)) =>
      /\ ~FieldsAsked
      /\ CountOf("PATCH") = 1
      /\ \A i \in 1..Len(requests) :
           requests[i].method = "PATCH" =>
             requests[i].body.keys = {Prefix \o NatToStr(n)}
      /\ ~ResolutionFailureReported


\* some earlier request for that path was answered before request i was made
AnsweredBefore(i, path) ==
  \E j \in 1..(i - 1) : requests[j].path = path /\ Answered(j)

IsRowsRequestFor(i, t) ==
  \E size \in WalkSizes : requests[i].path = RowsPath(t, size)

\* a request is made only once its parent's answer has arrived, and at
\* most one request is unanswered
CausallyOrdered ==
  /\ Len(requests) <= Len(responses) + 1
  /\ \A i \in 1..Len(requests) :
       /\ (i = 1) = (requests[i].path = <<"/api/workspaces/">>)
       /\ \A w \in WsIds :
            requests[i].path = ApplicationsPath(w) =>
              AnsweredBefore(i, <<"/api/workspaces/">>)
       /\ \A a \in AppIds :
            requests[i].path = TablesPath(a) =>
              AnsweredBefore(i, ApplicationsPath(a \div 10))
       /\ \A t \in TableIds :
            (requests[i].path = FieldsPath(t) \/ IsRowsRequestFor(i, t)) =>
              AnsweredBefore(i, TablesPath(t \div 10))
       /\ (i > 1) =>
            \/ IsApplicationsRequest(i)
            \/ IsTablesRequest(i)
            \/ IsFieldsRequest(i)
            \/ \E t \in TableIds : IsRowsRequestFor(i, t)

\* seq holds the items of served whose ids it names, in the order of served
InOrderOf(seq, served) ==
  Ids(seq) = SelectSeq(Ids(served), LAMBDA id : id \in Range(Ids(seq)))

\* the sequences of the returned structure are in the order of the answers
BackendOrderKept ==
  /\ Ids(OutWorkspaces) = Ids(ServeWorkspaces(backend))
  /\ \A w \in 1..Len(OutWorkspaces) :
       /\ InOrderOf(OutWorkspaces[w].applications,
                    SelectSeq(ServeApplications(backend, w), IsDatabase))
       /\ \A x \in 1..Len(OutWorkspaces[w].applications) :
            LET app == OutWorkspaces[w].applications[x] IN
              /\ InOrderOf(app.tables, ServeTables(backend, app.id))
              /\ \A y \in 1..Len(app.tables) :
                   InOrderOf(app.tables[y].fields,
                             ServeFields(backend, app.tables[y].id))

\* C29: each request of readBaserowStructure is made only after the answer
\* of its parent's request (applications after workspaces, tables after the
\* workspace's applications, fields and rows after the application's
\* tables), and the workspaces, applications, tables and fields of the
\* result are in the order the backend returned them.
C29_CausalAndBackendOrder ==
  WalkTool =>
    /\ CausallyOrdered
    /\ (outcome.kind = "returned" => BackendOrderKept)

C29_Witness ==
  /\ WalkReturned
  /\ Len(OutWorkspaces) >= 2
  /\ \E t \in OutTables : Len(t.fields) >= 1
  /\ \E i \in 1..Len(requests) : IsRowsRequest(i)


\* how many requests of the call went to that path
RequestsTo(path) ==
  Cardinality({i \in 1..Len(requests) : requests[i].path = path})

RowsRequestsFor(t) ==
  Cardinality({i \in 1..Len(requests) : IsRowsRequestFor(i, t)})

RequestCounts ==
  /\ RequestsTo(<<"/api/workspaces/">>) <= 1
  /\ (Finished /\ EnvComplete) => RequestsTo(<<"/api/workspaces/">>) = 1
  /\ \A w \in WsIds : RequestsTo(ApplicationsPath(w)) <= 1
  /\ \A a \in AppIds :
       RequestsTo(TablesPath(a)) <= (IF a \in DatabaseIds THEN 1 ELSE 0)
  /\ \A t \in TableIds :
       /\ RequestsTo(FieldsPath(t)) <= 1
       /\ RowsRequestsFor(t) <= (IF args.includeRows THEN 1 ELSE 0)
  /\ \A i \in 1..Len(requests) :
       \/ requests[i].path = <<"/api/workspaces/">>
       \/ IsApplicationsRequest(i)
       \/ \E a \in DatabaseIds : requests[i].path = TablesPath(a)
       \/ IsFieldsRequest(i)
       \/ \E t \in TableIds : IsRowsRequestFor(i, t)

\* C30: when every fetch settles, readBaserowStructure comes to an end,
\* and it makes exactly one workspaces request, at most one applications
\* request per workspace, at most one tables request per database and none
\* for another application, at most one fields request per table, and at
\* most one rows request per table, none when includeRows is false.
C30_TerminatesWithBoundedRequests ==
  /\ <>(WalkTool /\ Finished)
  /\ [](WalkTool => RequestCounts)

C30_Witness ==
  /\ WalkReturned
  /\ args.includeRows
  /\ Len(requests) >= 5
  /\ \E a \in AppIds : a \notin DatabaseIds
  /\ \E t \in TableIds : RowsRequestsFor(t) = 1 /\ RequestsTo(FieldsPath(t)) = 1


\* how the request for that path was answered ("none": never asked or not
\* answered yet); no path is requested twice
AnswerKind(path) ==
  IF \E i \in 1..Len(responses) : requests[i].path = path
  THEN responses[CHOOSE i \in 1..Len(responses) : requests[i].path = path].kind
  ELSE "none"

\* the table, application, workspace and summary as the answers alone
\* determine them, whatever the moment each answer arrived
DeterminedTable(t) ==
  LET rows == ServeRows(backend, t.id, args.maxRows)
      gotRows == AnswerKind(RowsPath(t.id, args.maxRows)) = "ok"
  IN  [id |-> t.id, name |-> t.name, order |-> t.order,
       fields |-> IF AnswerKind(FieldsPath(t.id)) = "ok"
                  THEN MapFields(ServeFields(backend, t.id)) ELSE <<>>,
       rowCount |-> IF gotRows THEN rows.count ELSE 0,
       sampleRows |-> IF gotRows THEN rows.results ELSE <<>>]

DeterminedApplication(a) ==
  [id |-> a.id, name |-> a.name, type |-> a.type,
   tables |-> IF AnswerKind(TablesPath(a.id)) = "ok"
              THEN [k \in 1..Len(ServeTables(backend, a.id)) |->
                      DeterminedTable(ServeTables(backend, a.id)[k])]
              ELSE <<>>]

DeterminedWorkspace(w) ==
  LET dbs == SelectSeq(ServeApplications(backend, w.id), IsDatabase)
  IN  [id |-> w.id, name |-> w.name,
       applications |-> IF AnswerKind(ApplicationsPath(w.id)) = "ok"
                        THEN [j \in 1..Len(dbs) |-> DeterminedApplication(dbs[j])]
                        ELSE <<>>]

DeterminedSummary ==
  [totalWorkspaces |-> Len(ServeWorkspaces(backend)),
   totalApplications |->
     SumFn([w \in WsIds |->
              IF AnswerKind(ApplicationsPath(w)) = "ok"
              THEN Len(ServeApplications(backend, w)) ELSE 0], WsIds),
   totalTables |->
     SumFn([a \in DatabaseIds |->
              IF AnswerKind(TablesPath(a)) = "ok"
              THEN Len(ServeTables(backend, a)) ELSE 0], DatabaseIds),
   totalFields |->
     SumFn([t \in TableIds |->
              IF AnswerKind(FieldsPath(t)) = "ok"
              THEN Len(ServeFields(backend, t)) ELSE 0], TableIds)]

DeterminedStructure ==
  [workspaces |-> [w \in 1..Len(ServeWorkspaces(backend)) |->
                     DeterminedWorkspace(ServeWorkspaces(backend)[w])],
   summary |-> DeterminedSummary]

\* C31: the structure and the summary that readBaserowStructure returns are
\* a function of its arguments and of the answer each request received:
\* two runs with the same answers to the same requests return the same
\* result, whatever the order in which the answers arrived.
C31_ResultDeterminedByAnswers ==
  WalkReturned =>
    /\ outcome.result.structure = DeterminedStructure
    /\ outcome.result.message = WalkMessage(DeterminedSummary)

C31_Witness ==
  /\ WalkReturned
  /\ args.includeRows
  /\ \E i \in 1..Len(responses) : Failed(i)
  /\ \E t \in OutTables : Len(t.fields) >= 1 /\ t.rowCount >= 1
  /\ \E w \in 1..Len(OutWorkspaces) : OutWorkspaces[w].applications # <<>>


\* a request of the call has no answer yet
Unanswered == Len(requests) > Len(responses)

\* C32: there is no timeout and no cancellation: while a request of
\* uploadImageUrl, uploadFile or readBaserowStructure has no answer, the
\* call has neither returned nor failed, and until the answer arrives the
\* call makes no further request and its outcome stays open.
C32_NoTimeoutNoCancellation ==
  /\ [](Unanswered => outcome.kind = "pending")
  /\ [][Unanswered =>
          \/ Len(responses') > Len(responses)
          \/ (requests' = requests /\ outcome' = outcome /\ pc' = pc)]_vars

C32_Witness ==
  /\ Unanswered
  /\ Len(responses) >= 2
  /\ outcome.kind = "pending"


\* the requests of the call after the upload request
AttachPhaseRequests == SubSeq(requests, 2, Len(requests))

\* the attach-phase requests, the way the call ends and the result, from
\* the upload answer, the triple and the answers alone: the entry point
\* does not occur in them
SharedAttachRequests ==
  IF ~AttachRequested(args) THEN <<>>
  ELSE (IF GetFieldIdDirect(args.fieldName).done THEN <<>>
        ELSE <<FieldsRequest(args.tableId)>>)
       \o (IF Truthy(fieldId)
           THEN <<PatchRequest(args, fieldId, uploadResult)>> ELSE <<>>)

SharedEnd ==
  IF PatchIssued /\ LastAnswer.kind \in {"reject", "aborted", "badjson"}
  THEN "thrown" ELSE "returned"

SharedResult ==
  IF ~AttachRequested(args) THEN UploadOnly(uploadResult)
  ELSE IF ~Truthy(fieldId) THEN ResolveFailed(uploadResult, args)
  ELSE IF LastAnswer.kind = "ok" THEN Updated(uploadResult, LastAnswer.row)
  ELSE UpdateFailed(uploadResult, LastAnswer)

\* C33: uploadImageUrl and uploadFile share the protocol after the upload:
\* with the same upload answer, the same tableId, rowId and field
\* reference and the same answers of the backend, the requests of the
\* attach phase and the result returned are the same for both.
C33_SharedAttachProtocol ==
  (UploadToolCall /\ UploadOk /\ Finished) =>
    /\ AttachPhaseRequests = SharedAttachRequests
    /\ outcome.kind = SharedEnd
    /\ (outcome.kind = "returned" => outcome.result = SharedResult)

C33_Witness ==
  /\ tool = "uploadFile"
  /\ UploadOk
  /\ Finished
  /\ PatchAnswered
  /\ outcome.kind = "returned"
  /\ "row_update_error" \in Keys


\* what process.env held when the call started
AtStart == NoCredentials.env

\* C34: every request of one call of uploadImageUrl, uploadFile or
\* readBaserowStructure carries the base URL and the token that the
\* environment held when the call started, whatever the environment holds
\* later; and when one of the two is absent the call fails on that before
\* anything else: no file check, no request.
C34_CredentialsFixedPerCall ==
  /\ Len(credentials.sent) = Len(requests)
  /\ \A i \in 1..Len(credentials.sent) : credentials.sent[i] = AtStart
  /\ (~EnvComplete /\ pc # "start") =>
       /\ requests = <<>>
       /\ outcome = Thrown(ConfigMsg)

C34_Witness ==
  /\ Len(requests) >= 3
  /\ credentials.env.url # AtStart.url
  /\ credentials.env.token # AtStart.token
  /\ credentials.sent[Len(requests)] = AtStart


\* how many fields the returned structure nests
NestedFields == SumFn([t \in OutTables |-> Len(t.fields)], OutTables)

\* a successful applications answer held an application of another type
NonDatabaseReturned ==
  \E i \in 1..Len(responses), w \in WsIds :
    /\ Succeeded(i)
    /\ requests[i].path = ApplicationsPath(w)
    /\ \E app \in Range(ServeApplications(backend, w)) : ~IsDatabase(app)

\* C35: in a result of readBaserowStructure the workspaces of the output
\* are as many as totalWorkspaces, the nested tables as many as
\* totalTables, the nested fields as many as totalFields, and the nested
\* applications at most totalApplications, as many exactly when no
\* application of another type than database was returned.
C35_SummaryAgainstNesting ==
  WalkReturned =>
    /\ Len(OutWorkspaces) = OutSummary.totalWorkspaces
    /\ Cardinality(OutTables) = OutSummary.totalTables
    /\ NestedFields = OutSummary.totalFields
    /\ Cardinality(OutApps) <= OutSummary.totalApplications
    /\ (Cardinality(OutApps) = OutSummary.totalApplications) <=>
         ~NonDatabaseReturned

C35_Witness ==
  /\ WalkReturned
  /\ NonDatabaseReturned
  /\ Cardinality(OutApps) >= 1
  /\ Cardinality(OutApps) < OutSummary.totalApplications
  /\ NestedFields >= 1
  /\ \E i \in 1..Len(responses) : Failed(i)


\* the position in requests where the second call starts (0: no second
\* call yet)
SecondCallAt ==
  LET roots == {i \in 2..Len(requests) :
                  requests[i].path = <<"/api/workspaces/">>}
  IN  IF roots = {} THEN 0 ELSE CHOOSE i \in roots : TRUE

FirstCallRequests == SubSeq(requests, 1, SecondCallAt - 1)
SecondCallRequests == SubSeq(requests, SecondCallAt, Len(requests))
FirstCallAnswers == SubSeq(responses, 1, SecondCallAt - 1)
SecondCallAnswers == SubSeq(responses, SecondCallAt, Len(responses))

\* a second call has ended, and it was answered as the first was
SecondCallAnsweredAlike ==
  /\ SecondCallAt > 0
  /\ Finished
  /\ SecondCallAnswers = FirstCallAnswers

\* C36: readBaserowStructure makes only GET requests and changes nothing
\* in the backend, and it keeps nothing from one call to the next: a second
\* call that is answered as the first was makes every request of the first
\* again and returns the structure the answers determine.
C36_ReadOnlyAndStateless ==
  /\ [](WalkTool =>
          /\ \A i \in 1..Len(requests) : requests[i].method = "GET"
          /\ (SecondCallAnsweredAlike =>
                /\ SecondCallRequests = FirstCallRequests
                /\ (outcome.kind = "returned" =>
                      outcome.result.structure = DeterminedStructure)))
  /\ [][backend' = backend]_vars

C36_Witness ==
  /\ WalkTool
  /\ SecondCallAnsweredAlike
  /\ outcome.kind = "returned"
  /\ Len(SecondCallRequests) >= 3
  /\ \E i \in 1..Len(responses) : Failed(i)


UploadFailed == Len(responses) >= 1 /\ responses[1].kind # "ok"

\* the reference is a name that the resolver cannot resolve: the table has
\* no field of that name, or its field list could not be fetched
ResolutionFails ==
  /\ IsNameRef(args.fieldName)
  /\ NameAbsent(args.fieldName.s) \/ FieldsFetchFailed

RowUnchanged == backend.row.applied = <<>>

\* the PATCH, when one was made, goes to the row tableId/rowId and writes
\* the one key field_<resolved id>; the row is written by nothing else
OnlyTargetWritten ==
  /\ \A i \in 1..Len(requests) :
       requests[i].method = "PATCH" =>
         /\ requests[i].path = RowPathOf(args)
         /\ requests[i].body.keys = {OwnKey}
  /\ ~RowUnchanged =>
       /\ PatchAnswered
       /\ LastAnswer.kind \in {"ok", "badjson", "reject"}
       /\ backend.row.applied =
            <<[keys |-> {OwnKey}, value |-> <<uploadResult>>]>>

\* C37: an upload call changes a row of the backend only through a
\* successful PATCH of its target row: when the triple is not supplied,
\* when the field cannot be resolved or when the upload fails, no PATCH is
\* made and the row is unchanged; a PATCH that is made goes to the row
\* tableId/rowId and writes only the key field_<resolved id>.
C37_RowChangedOnlyByTargetPatch ==
  UploadToolCall =>
    /\ (~AllSupplied \/ ResolutionFails \/ UploadFailed) =>
         (~PatchIssued /\ RowUnchanged)
    /\ OnlyTargetWritten


\* the id that the name of the call had in the field list as it was
\* answered (0: the list did not hold the name)
IdAtResolution ==
  LET list == IF Len(responses) >= 2 THEN responses[2].fields ELSE <<>>
      hits == {k \in 1..Len(list) : list[k].name = args.fieldName.s}
  IN  IF hits = {} THEN 0
      ELSE list[CHOOSE k \in hits : \A h \in hits : k <= h].id

\* the table no longer has, under the name of the call, the field that was
\* resolved
FieldGoneStale ==
  \A k \in 1..Len(backend.fields) :
    backend.fields[k].name = args.fieldName.s =>
      backend.fields[k].id # IdAtResolution

\* C38: nothing ties the resolution of a field name to the PATCH: once the
\* name is resolved, the call asks for the field list no more, and the
\* PATCH it makes, and the backend applies, is for the id resolved earlier,
\* whatever has become of the table's fields since.
C38_NoRevalidationBeforePatch ==
  (UploadToolCall /\ FieldsAsked /\ PatchIssued) =>
    /\ Len(requests) = 3
    /\ requests[2].method = "GET"
    /\ requests[3].method = "PATCH"
    /\ IdAtResolution # 0
    /\ requests[3].body.keys = {Prefix \o NatToStr(IdAtResolution)}
    /\ (PatchAnswered /\ LastAnswer.kind = "ok") =>
         backend.row.applied =
           <<[keys |-> {Prefix \o NatToStr(IdAtResolution)},
              value |-> <<uploadResult>>]>>

C38_Witness ==
  /\ UploadToolCall
  /\ FieldsAsked
  /\ PatchAnswered
  /\ LastAnswer.kind = "ok"
  /\ FieldGoneStale
  /\ AppliedKeys = {Prefix \o NatToStr(IdAtResolution)}
====
